---- MODULE Spec2Model ----
(***************************************************************************)
(* Payload codec of the OBKV table client (src/rpc/protocol/payloads.rs):  *)
(* operation types, row keys, entities, operations, the single-operation   *)
(* request, the batch accumulator, the batch request and the result        *)
(* decoders.  Bytes are integers 0..255; a buffer is a sequence of bytes.  *)
(***************************************************************************)
EXTENDS Integers, Sequences, FiniteSets, TLC

VARIABLES
    vsn,        \* ob_vsn_major(): the negotiated major version, set once
    batch,      \* an ObTableBatchOperation (the accumulator)
    breq,       \* an ObTableBatchOperationRequest, or NoReq before it is built
    req,        \* an ObTableOperationRequest, or NoReq before it is built
    buf,        \* the BytesMut the most recent encode() call appended to
    len_ret,    \* Some(what len() returned for the payload encoded into buf)
    tablet,     \* the single ops of the ObTableTabletOp most recently generated
    res,        \* an ObTableBatchOperationResult
    opres,      \* an ObTableOperationResult
    calls,      \* the check_and_upsert calls made on the accumulator since it was last emptied
    src,        \* the BytesMut a decode() call reads from
    ret,        \* how the most recent call ended
    tag_in,     \* the i8 handed to ObTableOperationType::from_i8
    tag_out     \* what from_i8 returned

vars == <<vsn, calls, batch, breq, req, buf, len_ret, tablet, res, opres, src, ret, tag_in, tag_out>>

(***************************************************************************)
(* Bounds of the model.                                                    *)
(***************************************************************************)
\* most operations (and side-list entries) an accumulator holds
MaxOps == 2
\* most per-operation results a response buffer carries
MaxResults == 2

(***************************************************************************)
(* Wire primitives (serde_obkv::util), an external byte-exact contract.    *)
(***************************************************************************)
Byte == 0..255

\* i8 / bool stored by put_i8: the two's complement byte
put_i8(x) == <<x % 256>>

\* put_i64: 8 bytes big-endian, two's complement
RECURSIVE be_bytes(_, _)
be_bytes(x, n) == IF n = 0 THEN <<>> ELSE Append(be_bytes(x \div 256, n - 1), x % 256)

put_i64(x) == be_bytes(x, 8)

encoded_length_i8(x) == 1

\* the 7-bit groups of a negative i64 taken as u64: nine groups with the
\* continuation bit, then the top bit alone
RECURSIVE vi_groups(_, _)
vi_groups(x, n) ==
    IF n = 0 THEN <<>> ELSE <<128 + (x % 128)>> \o vi_groups(x \div 128, n - 1)

RECURSIVE encode_vi64(_)
encode_vi64(x) ==
    IF x < 0 THEN vi_groups(x, 9) \o <<1>>
    ELSE IF x < 128 THEN <<x>>
    ELSE <<128 + (x % 128)>> \o encode_vi64(x \div 128)

encoded_length_vi64(x) ==
    IF x < 0 THEN 10
    ELSE IF x <= 127 THEN 1
    ELSE IF x <= 16383 THEN 2
    ELSE IF x <= 2097151 THEN 3
    ELSE IF x <= 268435455 THEN 4
    ELSE 5

\* length-prefixed string: vi32 length, the bytes, a closing zero byte
encode_vstring(s) == encode_vi64(Len(s)) \o s \o <<0>>

encoded_length_vstring(s) == encoded_length_vi64(Len(s)) + Len(s) + 1

encode_bytes_string(s) == encode_vi64(Len(s)) \o s \o <<0>>

encoded_length_bytes_string(s) == encoded_length_vi64(Len(s)) + Len(s) + 1

(***************************************************************************)
(* Scalar values (serde_obkv::value::Value), consumed as opaque: value v   *)
(* takes v + 1 bytes on the wire, the first of which is v.                 *)
(***************************************************************************)
Value_default == 0

Value_len(v) == v + 1

Value_encode(v) == [i \in 1..(v + 1) |-> v]

(***************************************************************************)
(* ObTableOperationType                                                    *)
(***************************************************************************)
\* the variants of the enum
ObTableOperationType ==
    {"Get", "Insert", "Del", "Update", "InsertOrUpdate", "Replace", "Increment",
     "Append", "Scan", "TTL", "CheckAndInsertUp", "Invalid"}

I8 == -128..127

\* `op_type as i8`: the discriminant the enum gives the variant
as_i8(t) ==
    CASE t = "Get" -> 0
      [] t = "Insert" -> 1
      [] t = "Del" -> 2
      [] t = "Update" -> 3
      [] t = "InsertOrUpdate" -> 4
      [] t = "Replace" -> 5
      [] t = "Increment" -> 6
      [] t = "Append" -> 7
      [] t = "Scan" -> 8
      [] t = "TTL" -> 9
      [] t = "CheckAndInsertUp" -> 10
      [] t = "Invalid" -> 11

\* from_i8 with the wildcard arm defaulting instead of failing
from_i8_defaulting(i) ==
    CASE i = 0 -> [ok |-> TRUE, val |-> "Get"]
      [] i = 1 -> [ok |-> TRUE, val |-> "Insert"]
      [] i = 2 -> [ok |-> TRUE, val |-> "Del"]
      [] i = 3 -> [ok |-> TRUE, val |-> "Update"]
      [] i = 4 -> [ok |-> TRUE, val |-> "InsertOrUpdate"]
      [] i = 5 -> [ok |-> TRUE, val |-> "Replace"]
      [] i = 6 -> [ok |-> TRUE, val |-> "Increment"]
      [] i = 7 -> [ok |-> TRUE, val |-> "Append"]
      [] i = 8 -> [ok |-> TRUE, val |-> "Scan"]
      [] i = 9 -> [ok |-> TRUE, val |-> "TTL"]
      [] i = 10 -> [ok |-> TRUE, val |-> "CheckAndInsertUp"]
      [] OTHER -> [ok |-> TRUE, val |-> "Invalid"]

\* ObTableOperationType::from_i8: Ok(variant) or Err(InvalidData)
from_i8(i) ==
    CASE i = 0 -> [ok |-> TRUE, val |-> "Get"]
      [] i = 1 -> [ok |-> TRUE, val |-> "Insert"]
      [] i = 2 -> [ok |-> TRUE, val |-> "Del"]
      [] i = 3 -> [ok |-> TRUE, val |-> "Update"]
      [] i = 4 -> [ok |-> TRUE, val |-> "InsertOrUpdate"]
      [] i = 5 -> [ok |-> TRUE, val |-> "Replace"]
      [] i = 6 -> [ok |-> TRUE, val |-> "Increment"]
      [] i = 7 -> [ok |-> TRUE, val |-> "Append"]
      [] i = 8 -> [ok |-> TRUE, val |-> "Scan"]
      [] i = 9 -> [ok |-> TRUE, val |-> "TTL"]
      [] i = 10 -> [ok |-> TRUE, val |-> "CheckAndInsertUp"]
      [] OTHER -> [ok |-> FALSE, val |-> "InvalidData"]

(***************************************************************************)
(* Option<T>: None is the empty sequence, Some(x) the one-element one.     *)
(***************************************************************************)
None == <<>>

Some(x) == <<x>>

is_some(o) == Len(o) = 1

is_none(o) == Len(o) = 0

unwrap(o) == o[1]

(***************************************************************************)
(* Header (BasePayLoad, ObPayload::encode_header / len): the payload       *)
(* version and the length of the content that follows, both varints.       *)
(***************************************************************************)
BasePayLoad_version == 1

header_len(content_len) ==
    encoded_length_vi64(BasePayLoad_version) + encoded_length_vi64(content_len)

encode_header(content_len) ==
    encode_vi64(BasePayLoad_version) \o encode_vi64(content_len)

(***************************************************************************)
(* ObRowKey                                                                *)
(***************************************************************************)
Obj == 0
TableObj == 1

\* the alternate ("tablet") scalar encoding: one byte more than the default
Value_table_obj_len(v) == v + 2

Value_table_obj_encode(v) == [i \in 1..(v + 2) |-> v]

ObRowKey_new(keys) == [column_names |-> <<>>, keys |-> keys, obj_type |-> Obj]

RECURSIVE sum_key_len(_, _)
sum_key_len(keys, obj_type) ==
    IF keys = <<>> THEN 0
    ELSE (IF obj_type = Obj THEN Value_len(Head(keys))
          ELSE Value_table_obj_len(Head(keys)))
         + sum_key_len(Tail(keys), obj_type)

RECURSIVE encode_keys(_, _)
encode_keys(keys, obj_type) ==
    IF keys = <<>> THEN <<>>
    ELSE (IF obj_type = Obj THEN Value_encode(Head(keys))
          ELSE Value_table_obj_encode(Head(keys)))
         \o encode_keys(Tail(keys), obj_type)

ObRowKey_content_len(rk) ==
    encoded_length_vi64(Len(rk.keys)) + sum_key_len(rk.keys, rk.obj_type)

ObRowKey_encode(rk) ==
    encode_vi64(Len(rk.keys)) \o encode_keys(rk.keys, rk.obj_type)

(***************************************************************************)
(* ObTableEntity: a row key and a HashMap from property name to value,     *)
(* here a function whose domain is the set of names.                       *)
(***************************************************************************)
EmptyMap == [n \in {} |-> 0]

\* HashMap::insert: a later value replaces an earlier one of the same name
map_insert(m, name, v) == [n \in DOMAIN m \cup {name} |-> IF n = name THEN v ELSE m[n]]

\* the order in which the map is iterated: unspecified, but the same for
\* every iteration of an unchanged map
map_iter(m) ==
    CHOOSE s \in [1..Cardinality(DOMAIN m) -> DOMAIN m] :
        \A i, j \in DOMAIN s : i # j => s[i] # s[j]

ObTableEntity_new(row_keys) == [row_key |-> ObRowKey_new(row_keys), properties |-> EmptyMap]

\* add_attr that keeps the value a name already has
add_attr_keep_first(e, name, v) ==
    IF name \in DOMAIN e.properties THEN e
    ELSE [e EXCEPT !.properties = map_insert(e.properties, name, v)]

add_attr(e, name, v) == [e EXCEPT !.properties = map_insert(e.properties, name, v)]

RECURSIVE sum_prop_len(_, _)
sum_prop_len(m, names) ==
    IF names = <<>> THEN 0
    ELSE encoded_length_vstring(Head(names)) + Value_len(m[Head(names)])
         + sum_prop_len(m, Tail(names))

RECURSIVE encode_props(_, _)
encode_props(m, names) ==
    IF names = <<>> THEN <<>>
    ELSE encode_vstring(Head(names)) \o Value_encode(m[Head(names)])
         \o encode_props(m, Tail(names))

ObTableEntity_content_len(e) ==
    ObRowKey_content_len(e.row_key)
    + encoded_length_vi64(Cardinality(DOMAIN e.properties))
    + sum_prop_len(e.properties, map_iter(e.properties))

ObTableEntity_len(e) ==
    header_len(ObTableEntity_content_len(e)) + ObTableEntity_content_len(e)

ObTableEntity_encode(e) ==
    encode_header(ObTableEntity_content_len(e))
    \o ObRowKey_encode(e.row_key)
    \o encode_vi64(Cardinality(DOMAIN e.properties))
    \o encode_props(e.properties, map_iter(e.properties))

properties_names(e) == map_iter(e.properties)

properties_values(e) == [i \in 1..Cardinality(DOMAIN e.properties) |-> e.properties[map_iter(e.properties)[i]]]

(***************************************************************************)
(* ObTableOperation                                                        *)
(***************************************************************************)
\* the loop of ObTableOperation::new over the column names
RECURSIVE add_columns(_, _, _, _)
add_columns(e, cols, properties, i) ==
    IF i > Len(cols) THEN e
    ELSE add_columns(add_attr(e, cols[i],
                              IF is_some(properties) THEN unwrap(properties)[i]
                              ELSE Value_default),
                     cols, properties, i + 1)

ObTableOperation_new(operation_type, row_keys, columns, properties) ==
    [op_type |-> operation_type,
     entity |-> IF is_some(columns)
                THEN add_columns(ObTableEntity_new(row_keys), unwrap(columns), properties, 1)
                ELSE ObTableEntity_new(row_keys)]

set_row_key_names(op, names) == [op EXCEPT !.entity.row_key.column_names = names]

\* content_len counting the entity's body without the entity's header
ObTableOperation_content_len_bare(op) == 1 + ObTableEntity_content_len(op.entity)

ObTableOperation_content_len(op) == 1 + ObTableEntity_len(op.entity)

ObTableOperation_len(op) ==
    header_len(ObTableOperation_content_len(op)) + ObTableOperation_content_len(op)

\* the byte `op_type as i8` that encode writes after the header
ObTableOperation_tag(op) == put_i8(as_i8(op.op_type))

ObTableOperation_encode(op) ==
    encode_header(ObTableOperation_content_len(op))
    \o ObTableOperation_tag(op)
    \o ObTableEntity_encode(op.entity)

(***************************************************************************)
(* ObTableEntityType, ObTableConsistencyLevel, OB_INVALID_ID               *)
(***************************************************************************)
Dynamic == 0
KV == 1
HKV == 2

Strong == 0
Eventual == 1

OB_INVALID_ID == -1

\* `b as i8` of a bool
bool_i8(b) == IF b THEN 1 ELSE 0

(***************************************************************************)
(* ObTableOperationRequest                                                 *)
(***************************************************************************)
ObTableOperationRequest_new(table_name, operation_type, row_keys, columns, properties) ==
    [credential |-> <<>>,
     table_name |-> table_name,
     table_id |-> OB_INVALID_ID,
     partition_id |-> OB_INVALID_ID,
     entity_type |-> Dynamic,
     table_operation |-> ObTableOperation_new(operation_type, row_keys, columns, properties),
     consistency_level |-> Strong,
     return_row_key |-> FALSE,
     return_affected_entity |-> FALSE,
     return_affected_rows |-> TRUE]

\* content_len that sizes the partition id as a varint whatever the version
ObTableOperationRequest_content_len_varint(r, major) ==
    encoded_length_bytes_string(r.credential)
    + encoded_length_vstring(r.table_name)
    + encoded_length_vi64(r.table_id)
    + encoded_length_vi64(r.partition_id)
    + encoded_length_i8(r.entity_type)
    + encoded_length_i8(r.consistency_level)
    + encoded_length_i8(bool_i8(r.return_row_key))
    + encoded_length_i8(bool_i8(r.return_affected_entity))
    + encoded_length_i8(bool_i8(r.return_affected_rows))
    + ObTableOperation_len(r.table_operation)

ObTableOperationRequest_content_len(r, major) ==
    encoded_length_bytes_string(r.credential)
    + encoded_length_vstring(r.table_name)
    + encoded_length_vi64(r.table_id)
    + (IF major >= 4 THEN 8 ELSE encoded_length_vi64(r.partition_id))
    + encoded_length_i8(r.entity_type)
    + encoded_length_i8(r.consistency_level)
    + encoded_length_i8(bool_i8(r.return_row_key))
    + encoded_length_i8(bool_i8(r.return_affected_entity))
    + encoded_length_i8(bool_i8(r.return_affected_rows))
    + ObTableOperation_len(r.table_operation)

ObTableOperationRequest_len(r, major) ==
    header_len(ObTableOperationRequest_content_len(r, major))
    + ObTableOperationRequest_content_len(r, major)

\* the partition id as both requests write it
encode_partition_id(partition_id, major) ==
    IF major >= 4 THEN put_i64(partition_id) ELSE encode_vi64(partition_id)

\* encode that writes the partition id after the return flags, as the batch
\* request does
ObTableOperationRequest_encode_pid_last(r, major) ==
    encode_header(ObTableOperationRequest_content_len(r, major))
    \o encode_bytes_string(r.credential)
    \o encode_vstring(r.table_name)
    \o encode_vi64(r.table_id)
    \o put_i8(r.entity_type)
    \o ObTableOperation_encode(r.table_operation)
    \o put_i8(r.consistency_level)
    \o put_i8(bool_i8(r.return_row_key))
    \o put_i8(bool_i8(r.return_affected_entity))
    \o put_i8(bool_i8(r.return_affected_rows))
    \o encode_partition_id(r.partition_id, major)

ObTableOperationRequest_encode(r, major) ==
    encode_header(ObTableOperationRequest_content_len(r, major))
    \o encode_bytes_string(r.credential)
    \o encode_vstring(r.table_name)
    \o encode_vi64(r.table_id)
    \o encode_partition_id(r.partition_id, major)
    \o put_i8(r.entity_type)
    \o ObTableOperation_encode(r.table_operation)
    \o put_i8(r.consistency_level)
    \o put_i8(bool_i8(r.return_row_key))
    \o put_i8(bool_i8(r.return_affected_entity))
    \o put_i8(bool_i8(r.return_affected_rows))

(***************************************************************************)
(* RawObTableOperationFlag, RawObTableOperation, ObTableBatchOperation     *)
(***************************************************************************)
RawObTableOperationFlag_new == [check_and_execute |-> FALSE, check_exists |-> TRUE]

RawObTableOperation(op_type, row_keys_names, row_keys, columns, properties, filter_string, option_flag) ==
    [op_type |-> op_type, row_keys_names |-> row_keys_names, row_keys |-> row_keys,
     columns |-> columns, properties |-> properties,
     filter_string |-> filter_string, option_flag |-> option_flag]

\* internal_new as a derived Default would fill the flags
internal_new_derived(raw) ==
    [raw |-> raw,
     raw_ops |-> <<>>,
     table_name |-> <<>>,
     table_id |-> OB_INVALID_ID,
     partition_id |-> OB_INVALID_ID,
     ops |-> <<>>,
     read_only |-> FALSE,
     same_type |-> FALSE,
     same_properties_names |-> FALSE,
     atomic_op |-> FALSE,
     filters |-> <<>>,
     options |-> <<>>]

internal_new(raw) ==
    [raw |-> raw,
     raw_ops |-> <<>>,
     table_name |-> <<>>,
     table_id |-> OB_INVALID_ID,
     partition_id |-> OB_INVALID_ID,
     ops |-> <<>>,
     read_only |-> TRUE,
     same_type |-> TRUE,
     same_properties_names |-> TRUE,
     atomic_op |-> FALSE,
     filters |-> <<>>,
     options |-> <<>>]

\* the public constructors; ops_num only reserves capacity in the vector of
\* the mode, which holds no element either way
ObTableBatchOperation_new == internal_new(FALSE)

ObTableBatchOperation_raw == internal_new(TRUE)

with_ops_num(num) == internal_new(FALSE)

with_ops_num_raw(num) == internal_new(TRUE)

ObTableBatchOperation_default == ObTableBatchOperation_new

ops_len(b) == IF b.raw_ops = <<>> THEN Len(b.ops) ELSE Len(b.raw_ops)

set_atomic_op(b, atomic_op) == [b EXCEPT !.atomic_op = atomic_op]

set_table_name(b, table_name) == [b EXCEPT !.table_name = table_name]

set_table_id(b, table_id) == [b EXCEPT !.table_id = table_id]

set_partition_id(b, part_id) == [b EXCEPT !.partition_id = part_id]

add_table_op(b, op) == [b EXCEPT !.ops = Append(b.ops, op)]

\* the HashSet the name loop of add_op has filled when it ends: the names up
\* to and including the first one the first operation's properties lack
RECURSIVE names_seen(_, _)
names_seen(names, properties) ==
    IF names = <<>> THEN {}
    ELSE IF Head(names) \notin DOMAIN properties THEN {Head(names)}
    ELSE {Head(names)} \cup names_seen(Tail(names), properties)

\* add_op's update of read_only
\* read_only overwritten by the newest operation's type
upd_read_only_newest(b, op_type) == op_type = "Get"

upd_read_only(b, op_type) ==
    IF b.read_only /\ op_type # "Get" THEN FALSE ELSE b.read_only

\* same_type compared with Get instead of the first operation's type
upd_same_type_get(b, op_type) ==
    IF b.same_type /\ b.ops # <<>> /\ op_type # "Get"
    THEN FALSE ELSE b.same_type

\* add_op's update of same_type
upd_same_type(b, op_type) ==
    IF b.same_type /\ b.ops # <<>> /\ Head(b.ops).op_type # op_type
    THEN FALSE ELSE b.same_type

\* add_op's update of same_properties_names
upd_same_properties_names(b, columns) ==
    IF b.same_properties_names /\ b.ops # <<>>
    THEN LET properties == Head(b.ops).entity.properties
         IN  IF DOMAIN properties = {} /\ is_none(columns) THEN b.same_properties_names
             ELSE IF DOMAIN properties # {} /\ is_some(columns)
                  THEN IF Cardinality(DOMAIN properties) # Len(unwrap(columns))
                       THEN FALSE
                       ELSE Cardinality(names_seen(unwrap(columns), properties))
                            = Len(unwrap(columns))
                  ELSE FALSE
    ELSE b.same_properties_names

\* the operation add_op builds from the tuple
built_op(raw_op) ==
    LET temp_op == ObTableOperation_new(raw_op.op_type, raw_op.row_keys,
                                        raw_op.columns, raw_op.properties)
    IN  IF is_some(raw_op.row_keys_names)
        THEN set_row_key_names(temp_op, unwrap(raw_op.row_keys_names))
        ELSE temp_op

\* add_op classifying the tuple before it looks at the mode
add_op_classifying(b, raw_op) ==
    [b EXCEPT
        !.read_only = upd_read_only(b, raw_op.op_type),
        !.same_type = upd_same_type(b, raw_op.op_type),
        !.same_properties_names = IF b.raw THEN @
                                  ELSE upd_same_properties_names(b, raw_op.columns),
        !.raw_ops = IF b.raw THEN Append(@, raw_op) ELSE @,
        !.filters = IF ~b.raw /\ is_some(raw_op.filter_string)
                    THEN Append(@, unwrap(raw_op.filter_string)) ELSE @,
        !.options = IF ~b.raw /\ is_some(raw_op.option_flag)
                    THEN Append(@, unwrap(raw_op.option_flag)) ELSE @,
        !.ops = IF b.raw THEN @ ELSE Append(@, built_op(raw_op))]

add_op(b, raw_op) ==
    IF b.raw
    THEN [b EXCEPT !.raw_ops = Append(b.raw_ops, raw_op)]
    ELSE [b EXCEPT
            !.read_only = upd_read_only(b, raw_op.op_type),
            !.same_type = upd_same_type(b, raw_op.op_type),
            !.same_properties_names = upd_same_properties_names(b, raw_op.columns),
            !.filters = IF is_some(raw_op.filter_string)
                        THEN Append(b.filters, unwrap(raw_op.filter_string))
                        ELSE b.filters,
            !.options = IF is_some(raw_op.option_flag)
                        THEN Append(b.options, unwrap(raw_op.option_flag))
                        ELSE b.options,
            !.ops = Append(b.ops, built_op(raw_op))]

\* get, insert, update, insert_or_update, replace, increment, append
\* (properties is None for get) and delete (columns None as well)
builder(b, op_type, row_keys, columns, properties) ==
    add_op(b, RawObTableOperation(op_type, None, row_keys, columns, properties, None, None))

check_and_upsert(b, row_keys_names, row_keys, columns, properties, filter, check_exists) ==
    add_op(b, RawObTableOperation("CheckAndInsertUp", Some(row_keys_names), row_keys,
                                  Some(columns), Some(properties), Some(filter),
                                  Some([RawObTableOperationFlag_new EXCEPT
                                          !.check_and_execute = TRUE,
                                          !.check_exists = check_exists])))

check_and_upsert_if_exists(b, row_keys_names, row_keys, columns, properties, filter) ==
    check_and_upsert(b, row_keys_names, row_keys, columns, properties, filter, TRUE)

check_and_upsert_if_not_exists(b, row_keys_names, row_keys, columns, properties, filter) ==
    check_and_upsert(b, row_keys_names, row_keys, columns, properties, filter, FALSE)

take_raw_ops(b) == [b EXCEPT !.raw_ops = <<>>]

\* take_ops starting the classification afresh for the emptied list
take_ops_resetting(b) ==
    [b EXCEPT !.ops = <<>>, !.read_only = TRUE, !.same_type = TRUE,
              !.same_properties_names = TRUE]

take_ops(b) == [b EXCEPT !.ops = <<>>]

take_filters(b) == [b EXCEPT !.filters = <<>>]

take_options(b) == [b EXCEPT !.options = <<>>]

Min(a, c) == IF a < c THEN a ELSE c

\* single_op that copies check_exists instead of inverting it
single_op_not_inverted(op, filter_string, option) ==
    [op_type |-> "CheckAndInsertUp",
     is_check_not_exists |-> option.check_exists,
     query |-> [scan_range_columns |-> op.entity.row_key.column_names,
                scan_range |-> <<[start_key |-> op.entity.row_key.keys,
                                  end_key |-> op.entity.row_key.keys]>>,
                filter_string |-> filter_string,
                obj_type |-> TableObj],
     entities |-> <<[row_key_names |-> op.entity.row_key.column_names,
                     row_key |-> op.entity.row_key.keys,
                     properties_names |-> properties_names(op.entity),
                     properties_values |-> properties_values(op.entity)]>>]

\* the ObTableSingleOp generate_tablet_ops builds from one zipped triple
single_op(op, filter_string, option) ==
    [op_type |-> "CheckAndInsertUp",
     is_check_not_exists |-> ~option.check_exists,
     query |-> [scan_range_columns |-> op.entity.row_key.column_names,
                scan_range |-> <<[start_key |-> op.entity.row_key.keys,
                                  end_key |-> op.entity.row_key.keys]>>,
                filter_string |-> filter_string,
                obj_type |-> TableObj],
     entities |-> <<[row_key_names |-> op.entity.row_key.column_names,
                     row_key |-> op.entity.row_key.keys,
                     properties_names |-> properties_names(op.entity),
                     properties_values |-> properties_values(op.entity)]>>]

\* generate_tablet_ops emitting the newest triple first
generate_tablet_ops_newest_first(b) ==
    LET n == Min(Len(b.ops), Min(Len(b.filters), Len(b.options))) IN
    [i \in 1..n |-> single_op(b.ops[n + 1 - i], b.filters[n + 1 - i], b.options[n + 1 - i])]

\* the single ops of the ObTableTabletOp generate_tablet_ops returns: the zip
\* of the three lists stops at the shortest
generate_tablet_ops(b) ==
    [i \in 1..Min(Len(b.ops), Min(Len(b.filters), Len(b.options))) |->
        single_op(b.ops[i], b.filters[i], b.options[i])]

\* generate_tablet_ops draining only the triples it zipped
after_generate_tablet_ops_zipped(b) ==
    LET n == Min(Len(b.ops), Min(Len(b.filters), Len(b.options))) IN
    [b EXCEPT !.ops = SubSeq(b.ops, n + 1, Len(b.ops)),
              !.filters = SubSeq(b.filters, n + 1, Len(b.filters)),
              !.options = SubSeq(b.options, n + 1, Len(b.options))]

\* the accumulator generate_tablet_ops leaves behind
after_generate_tablet_ops(b) == take_options(take_filters(take_ops(b)))

RECURSIVE sum_op_len(_)
sum_op_len(ops) ==
    IF ops = <<>> THEN 0 ELSE ObTableOperation_len(Head(ops)) + sum_op_len(Tail(ops))

RECURSIVE encode_ops(_)
encode_ops(ops) ==
    IF ops = <<>> THEN <<>> ELSE ObTableOperation_encode(Head(ops)) \o encode_ops(Tail(ops))

\* content_len that leaves out the three trailing flag bytes
ObTableBatchOperation_content_len_no_flags(b) ==
    encoded_length_vi64(Len(b.ops)) + sum_op_len(b.ops)

ObTableBatchOperation_content_len(b) ==
    3 + (encoded_length_vi64(Len(b.ops)) + sum_op_len(b.ops))

ObTableBatchOperation_len(b) ==
    header_len(ObTableBatchOperation_content_len(b)) + ObTableBatchOperation_content_len(b)

\* encode writing same_type ahead of read_only
ObTableBatchOperation_encode_same_type_first(b) ==
    encode_header(ObTableBatchOperation_content_len(b))
    \o encode_vi64(Len(b.ops))
    \o encode_ops(b.ops)
    \o put_i8(bool_i8(b.same_type))
    \o put_i8(bool_i8(b.read_only))
    \o put_i8(bool_i8(b.same_properties_names))

ObTableBatchOperation_encode(b) ==
    encode_header(ObTableBatchOperation_content_len(b))
    \o encode_vi64(Len(b.ops))
    \o encode_ops(b.ops)
    \o put_i8(bool_i8(b.read_only))
    \o put_i8(bool_i8(b.same_type))
    \o put_i8(bool_i8(b.same_properties_names))

(***************************************************************************)
(* ObTableBatchOperationRequest                                            *)
(***************************************************************************)
ObTableBatchOperationRequest_new(batch_operation) ==
    [credential |-> <<>>,
     table_name |-> batch_operation.table_name,
     table_id |-> batch_operation.table_id,
     partition_id |-> batch_operation.partition_id,
     entity_type |-> Dynamic,
     atomic_op |-> batch_operation.atomic_op,
     batch_operation |-> batch_operation,
     consistency_level |-> Strong,
     return_row_key |-> FALSE,
     return_affected_entity |-> FALSE,
     return_affected_rows |-> TRUE]

ObTableBatchOperationRequest_content_len(r, major) ==
    encoded_length_bytes_string(r.credential)
    + encoded_length_vstring(r.table_name)
    + encoded_length_vi64(r.table_id)
    + (IF major >= 4 THEN 8 ELSE encoded_length_vi64(r.partition_id))
    + ObTableBatchOperation_len(r.batch_operation)
    + encoded_length_i8(r.entity_type)
    + encoded_length_i8(r.consistency_level)
    + encoded_length_i8(bool_i8(r.return_row_key))
    + encoded_length_i8(bool_i8(r.return_affected_entity))
    + encoded_length_i8(bool_i8(r.return_affected_rows))
    + encoded_length_i8(bool_i8(r.atomic_op))

ObTableBatchOperationRequest_len(r, major) ==
    header_len(ObTableBatchOperationRequest_content_len(r, major))
    + ObTableBatchOperationRequest_content_len(r, major)

\* the atomic flag read from the embedded accumulator when encoding
ObTableBatchOperationRequest_atomic_live(r) ==
    put_i8(bool_i8(r.batch_operation.atomic_op))

\* the atomic flag encode writes as the last byte
ObTableBatchOperationRequest_atomic(r) == put_i8(bool_i8(r.atomic_op))

\* encode that writes the atomic flag with the other flags, before the
\* partition id
ObTableBatchOperationRequest_encode_atomic_early(r, major) ==
    encode_header(ObTableBatchOperationRequest_content_len(r, major))
    \o encode_bytes_string(r.credential)
    \o encode_vstring(r.table_name)
    \o encode_vi64(r.table_id)
    \o put_i8(r.entity_type)
    \o ObTableBatchOperation_encode(r.batch_operation)
    \o put_i8(r.consistency_level)
    \o put_i8(bool_i8(r.return_row_key))
    \o put_i8(bool_i8(r.return_affected_entity))
    \o put_i8(bool_i8(r.return_affected_rows))
    \o ObTableBatchOperationRequest_atomic(r)
    \o encode_partition_id(r.partition_id, major)

ObTableBatchOperationRequest_encode(r, major) ==
    encode_header(ObTableBatchOperationRequest_content_len(r, major))
    \o encode_bytes_string(r.credential)
    \o encode_vstring(r.table_name)
    \o encode_vi64(r.table_id)
    \o put_i8(r.entity_type)
    \o ObTableBatchOperation_encode(r.batch_operation)
    \o put_i8(r.consistency_level)
    \o put_i8(bool_i8(r.return_row_key))
    \o put_i8(bool_i8(r.return_affected_entity))
    \o put_i8(bool_i8(r.return_affected_rows))
    \o encode_partition_id(r.partition_id, major)
    \o ObTableBatchOperationRequest_atomic(r)

set_credential(r, credential) == [r EXCEPT !.credential = credential]

(***************************************************************************)
(* Decoding primitives (serde_obkv::util, util::decode_value).  A decoder  *)
(* returns Ok with the value and the bytes left, or Err with the bytes     *)
(* left when it failed.                                                    *)
(***************************************************************************)
Ok(v, rest) == [ok |-> TRUE, val |-> v, rest |-> rest, err |-> "none"]

Err(e, rest) == [ok |-> FALSE, val |-> 0, rest |-> rest, err |-> e]

drop(s, n) == SubSeq(s, n + 1, Len(s))

\* index of the byte that ends the varint s starts with, 0 when there is none
RECURSIVE vi_end(_, _)
vi_end(s, i) ==
    IF i > Len(s) \/ i > 10 THEN 0
    ELSE IF s[i] < 128 THEN i
    ELSE vi_end(s, i + 1)

\* the i64 of the groups g, g[1] being group number k: the tenth group is
\* bit 63, the sign
RECURSIVE vi_value(_, _)
vi_value(g, k) ==
    IF k = 10 THEN (IF g[1] % 2 = 1 THEN -1 ELSE 0)
    ELSE IF Len(g) = 1 THEN g[1]
    ELSE (g[1] % 128) + 128 * vi_value(Tail(g), k + 1)

decode_vi64(s) ==
    IF vi_end(s, 1) = 0 THEN Err("eof", s)
    ELSE Ok(vi_value(SubSeq(s, 1, vi_end(s, 1)), 1), drop(s, vi_end(s, 1)))

\* the i32 of the groups g: the fifth group holds bits 28..31, bit 31 the sign
RECURSIVE vi32_value(_, _)
vi32_value(g, k) ==
    IF k = 5 THEN (IF g[1] % 16 >= 8 THEN (g[1] % 16) - 16 ELSE g[1] % 16)
    ELSE IF Len(g) = 1 THEN g[1]
    ELSE (g[1] % 128) + 128 * vi32_value(Tail(g), k + 1)

decode_vi32(s) ==
    IF vi_end(s, 1) = 0 \/ vi_end(s, 1) > 5 THEN Err("eof", s)
    ELSE Ok(vi32_value(SubSeq(s, 1, vi_end(s, 1)), 1), drop(s, vi_end(s, 1)))

split_buf_to(s, n) ==
    IF n < 0 \/ n > Len(s) THEN Err("eof", s) ELSE Ok(SubSeq(s, 1, n), drop(s, n))

\* the `?` of a decoding step: an Err is returned as it is, an Ok is handed on
and_then(r, F(_)) == IF r.ok THEN F(r) ELSE r

\* length, bytes, closing zero byte
decode_vstring(s) ==
    and_then(decode_vi32(s), LAMBDA l :
    and_then(split_buf_to(l.rest, l.val), LAMBDA b :
        IF b.rest = <<>> THEN Err("eof", b.rest) ELSE Ok(b.val, Tail(b.rest))))

decode_bytes(s) == decode_vstring(s)

\* a scalar value: its first byte v, followed by v more bytes
decode_value(s) ==
    IF s = <<>> THEN Err("eof", s)
    ELSE IF Len(s) < Head(s) + 1 THEN Err("eof", s)
    ELSE Ok(Head(s), drop(s, Head(s) + 1))

\* ObPayload::decode_base: the version and the content length
decode_base(s) == and_then(decode_vi64(s), LAMBDA v : decode_vi64(v.rest))

(***************************************************************************)
(* ObTableEntity::decode                                                   *)
(***************************************************************************)
\* `for _ in 0..n { row_keys.push(decode_value(src)?) }`
RECURSIVE decode_row_keys(_, _, _)
decode_row_keys(s, n, acc) ==
    IF n = 0 THEN Ok(acc, s)
    ELSE and_then(decode_value(s), LAMBDA v :
             decode_row_keys(v.rest, n - 1, Append(acc, v.val)))

\* `for _ in 0..n { name = decode_vstring; add_attr(name, decode_value) }`
RECURSIVE decode_properties(_, _, _)
decode_properties(e, s, n) ==
    IF n = 0 THEN Ok(e, s)
    ELSE and_then(decode_vstring(s), LAMBDA name :
         and_then(decode_value(name.rest), LAMBDA v :
             decode_properties(add_attr(e, name.val, v.val), v.rest, n - 1)))

ObTableEntity_decode(e, s) ==
    and_then(decode_base(s), LAMBDA base :
    and_then(decode_vi64(base.rest), LAMBDA row_keys_len :
    and_then(IF row_keys_len.val > 0
             THEN decode_row_keys(row_keys_len.rest, row_keys_len.val, <<>>)
             ELSE Ok(e.row_key.keys, row_keys_len.rest), LAMBDA keys :
    and_then(decode_vi64(keys.rest), LAMBDA properties_len :
        IF properties_len.val > 0
        THEN decode_properties([e EXCEPT !.row_key.keys = keys.val],
                               properties_len.rest, properties_len.val)
        ELSE Ok([e EXCEPT !.row_key.keys = keys.val], properties_len.rest)))))

(***************************************************************************)
(* ObTableResult, ObTableOperationResult                                   *)
(***************************************************************************)
ObTableResult_new == [errorno |-> 0, sql_state |-> <<>>, msg |-> <<>>]

ObTableResult_decode(h, s) ==
    and_then(decode_base(s), LAMBDA base :
    and_then(decode_vi32(base.rest), LAMBDA errorno :
    and_then(decode_bytes(errorno.rest), LAMBDA sql_state :
    and_then(decode_bytes(sql_state.rest), LAMBDA msg :
        Ok([errorno |-> errorno.val, sql_state |-> sql_state.val, msg |-> msg.val],
           msg.rest)))))

\* TraceId(0, 0) and no peer address
ObTableOperationResult_new ==
    [header |-> ObTableResult_new,
     operation_type |-> "Get",
     entity |-> ObTableEntity_new(<<>>),
     affected_rows |-> 0,
     trace_id |-> <<0, 0>>,
     peer_addr |-> None]

\* the signed value of a byte (Buf::get_i8)
get_i8(b) == IF b >= 128 THEN b - 256 ELSE b

\* from_i8 on the byte split off the buffer
decode_operation_type(tag) ==
    IF from_i8(get_i8(tag.val[1])).ok
    THEN Ok(from_i8(get_i8(tag.val[1])).val, tag.rest)
    ELSE Err(from_i8(get_i8(tag.val[1])).val, tag.rest)

ObTableOperationResult_decode(r, s) ==
    and_then(decode_base(s), LAMBDA base :
    and_then(ObTableResult_decode(r.header, base.rest), LAMBDA header :
    and_then(split_buf_to(header.rest, 1), LAMBDA tag :
    and_then(decode_operation_type(tag), LAMBDA operation_type :
    and_then(ObTableEntity_decode(r.entity, operation_type.rest), LAMBDA entity :
    and_then(decode_vi64(entity.rest), LAMBDA affected_rows :
        Ok([r EXCEPT !.header = header.val,
                     !.operation_type = operation_type.val,
                     !.entity = entity.val,
                     !.affected_rows = affected_rows.val],
           affected_rows.rest)))))))

(***************************************************************************)
(* The decoders as they write into `&mut self`: on an early `?` return the *)
(* object keeps what was assigned before the failing read.                 *)
(***************************************************************************)
\* a decode under way: the object as written so far and the bytes left
Ran(obj, rest) == [ok |-> TRUE, obj |-> obj, rest |-> rest, err |-> "none"]

\* `self.field = read(src)?`
assign(st, read(_), set(_, _)) ==
    IF ~st.ok THEN st
    ELSE IF read(st.rest).ok
         THEN [st EXCEPT !.obj = set(st.obj, read(st.rest).val),
                         !.rest = read(st.rest).rest]
         ELSE [st EXCEPT !.ok = FALSE, !.err = read(st.rest).err,
                         !.rest = read(st.rest).rest]

\* `self.field.decode(src)?`
decode_field(st, decode(_, _), get(_), set(_, _)) ==
    IF ~st.ok THEN st
    ELSE [ok |-> decode(get(st.obj), st.rest).ok,
          obj |-> set(st.obj, decode(get(st.obj), st.rest).obj),
          rest |-> decode(get(st.obj), st.rest).rest,
          err |-> decode(get(st.obj), st.rest).err]

\* decode_base stores nothing the model keeps
base_kept(o, v) == o

ObTableResult_decode_mut(h, s) ==
    assign(assign(assign(assign(Ran(h, s),
        decode_base, base_kept),
        decode_vi32, LAMBDA o, v : [o EXCEPT !.errorno = v]),
        decode_bytes, LAMBDA o, v : [o EXCEPT !.sql_state = v]),
        decode_bytes, LAMBDA o, v : [o EXCEPT !.msg = v])

\* the row keys read into the local vector: Some(keys), or None when the
\* length is not positive and set_row_key is not called
read_row_keys(s) ==
    and_then(decode_vi64(s), LAMBDA row_keys_len :
        IF row_keys_len.val > 0
        THEN and_then(decode_row_keys(row_keys_len.rest, row_keys_len.val, <<>>),
                      LAMBDA keys : Ok(Some(keys.val), keys.rest))
        ELSE Ok(None, row_keys_len.rest))

\* one name and its value
read_property(s) ==
    and_then(decode_vstring(s), LAMBDA name :
    and_then(decode_value(name.rest), LAMBDA v :
        Ok(<<name.val, v.val>>, v.rest)))

RECURSIVE decode_properties_mut(_, _)
decode_properties_mut(st, n) ==
    IF ~st.ok \/ n <= 0 THEN st
    ELSE decode_properties_mut(
             assign(st, read_property, LAMBDA o, nv : add_attr(o, nv[1], nv[2])),
             n - 1)

\* properties_len, then the loop
read_properties(st) ==
    IF ~st.ok THEN st
    ELSE IF ~decode_vi64(st.rest).ok
         THEN [st EXCEPT !.ok = FALSE, !.err = decode_vi64(st.rest).err]
         ELSE decode_properties_mut([st EXCEPT !.rest = decode_vi64(st.rest).rest],
                                    decode_vi64(st.rest).val)

ObTableEntity_decode_mut(e, s) ==
    read_properties(assign(assign(Ran(e, s),
        decode_base, base_kept),
        read_row_keys, LAMBDA o, keys : IF is_some(keys)
                                        THEN [o EXCEPT !.row_key.keys = unwrap(keys)]
                                        ELSE o))

\* the operation-type byte through from_i8
read_operation_type(s) == and_then(split_buf_to(s, 1), decode_operation_type)

\* decode writing over the object it is called on
ObTableOperationResult_decode_anew(r, s) ==
    assign(decode_field(assign(decode_field(assign(Ran(ObTableOperationResult_new, s),
        decode_base, base_kept),
        ObTableResult_decode_mut, LAMBDA o : o.header,
                                  LAMBDA o, v : [o EXCEPT !.header = v]),
        read_operation_type, LAMBDA o, v : [o EXCEPT !.operation_type = v]),
        ObTableEntity_decode_mut, LAMBDA o : o.entity,
                                  LAMBDA o, v : [o EXCEPT !.entity = v]),
        decode_vi64, LAMBDA o, v : [o EXCEPT !.affected_rows = v])

ObTableOperationResult_decode_mut(r, s) ==
    assign(decode_field(assign(decode_field(assign(Ran(r, s),
        decode_base, base_kept),
        ObTableResult_decode_mut, LAMBDA o : o.header,
                                  LAMBDA o, v : [o EXCEPT !.header = v]),
        read_operation_type, LAMBDA o, v : [o EXCEPT !.operation_type = v]),
        ObTableEntity_decode_mut, LAMBDA o : o.entity,
                                  LAMBDA o, v : [o EXCEPT !.entity = v]),
        decode_vi64, LAMBDA o, v : [o EXCEPT !.affected_rows = v])

\* set_trace_id, set_peer_addr
set_trace_id(r, trace_id) == [r EXCEPT !.trace_id = trace_id]

set_peer_addr(r, addr) == [r EXCEPT !.peer_addr = Some(addr)]

(***************************************************************************)
(* ObTableBatchOperationResult                                             *)
(***************************************************************************)
ObTableBatchOperationResult_new == [op_results |-> <<>>]

\* the loop of decode putting each result in front of the earlier ones
RECURSIVE decode_op_results_prepending(_, _, _, _)
decode_op_results_prepending(op_results, s, n, started) ==
    IF n = 0
    THEN [op_results |-> op_results, rest |-> s, outcome |-> "Ok", nested |-> started]
    ELSE LET op_res == ObTableOperationResult_decode(ObTableOperationResult_new, s) IN
         IF ~op_res.ok
         THEN [op_results |-> op_results, rest |-> op_res.rest,
               outcome |-> op_res.err, nested |-> started + 1]
         ELSE decode_op_results_prepending(<<op_res.val>> \o op_results, op_res.rest,
                                           n - 1, started + 1)

\* the loop of decode: what it leaves in op_results and src, how it ended
\* and how many nested decodes it started
RECURSIVE decode_op_results(_, _, _, _)
decode_op_results(op_results, s, n, started) ==
    IF n = 0
    THEN [op_results |-> op_results, rest |-> s, outcome |-> "Ok", nested |-> started]
    ELSE LET op_res == ObTableOperationResult_decode(ObTableOperationResult_new, s) IN
         IF ~op_res.ok
         THEN [op_results |-> op_results, rest |-> op_res.rest,
               outcome |-> op_res.err, nested |-> started + 1]
         ELSE decode_op_results(Append(op_results, op_res.val), op_res.rest,
                                n - 1, started + 1)

\* what decode leaves behind when it stops before the loop
stopped(r, rest, outcome) ==
    [op_results |-> r.op_results, rest |-> rest, outcome |-> outcome, nested |-> 0]

\* decode that takes the count as unsigned: a negative one never runs out
decode_counted_unsigned(r, op_res_num) ==
    IF Len(r.op_results) # 0
    THEN stopped(r, op_res_num.rest, "panic")
    ELSE decode_op_results(r.op_results, op_res_num.rest, op_res_num.val, 0)

\* decode without the assertion on op_results
decode_counted_unchecked(r, op_res_num) ==
    IF op_res_num.val < 0
    THEN stopped(r, op_res_num.rest, "invalid operation results num")
    ELSE decode_op_results(r.op_results, op_res_num.rest, op_res_num.val, 0)

\* decode once the count is read
decode_counted(r, op_res_num) ==
    IF op_res_num.val < 0
    THEN stopped(r, op_res_num.rest, "invalid operation results num")
    ELSE IF Len(r.op_results) # 0
    THEN stopped(r, op_res_num.rest, "panic")
    ELSE decode_op_results(r.op_results, op_res_num.rest, op_res_num.val, 0)

\* a failed read of the header or of the count ends decode
read_count(s) == and_then(decode_base(s), LAMBDA base : decode_vi64(base.rest))

\* outcome: "Ok", an error ("eof", "InvalidData", "invalid operation results
\* num") or "panic" when the assertion on op_results fails
ObTableBatchOperationResult_decode(r, s) ==
    IF read_count(s).ok
    THEN decode_counted(r, read_count(s))
    ELSE stopped(r, read_count(s).rest, read_count(s).err)

(***************************************************************************)
(* Inputs the actions draw from.                                           *)
(***************************************************************************)
\* "c0", "c1", "rk", "test" as UTF-8
c0 == <<99, 48>>
c1 == <<99, 49>>
rk == <<114, 107>>
test == <<116, 101, 115, 116>>

\* ids: unresolved, one varint byte, two varint bytes
Ids == {OB_INVALID_ID, 1, 300}

Versions == {3, 4}

\* the variables a specification leaves alone, at rest
IdleType == tag_in = 0 /\ tag_out = None
IdleReq == req = None
IdleBatch == batch = internal_new(FALSE) /\ tablet = <<>>
IdleBatchReq == breq = None
IdleOut == buf = <<>> /\ len_ret = None
IdleDecode == res = ObTableBatchOperationResult_new /\ src = <<>> /\ ret = None
IdleOpResult == opres = ObTableOperationResult_new

IdleCalls == calls = <<>>

(***************************************************************************)
(* SpecType: ObTableOperationType::from_i8 applied to every i8.            *)
(***************************************************************************)
InitType ==
    /\ tag_in \in I8
    /\ tag_out = None
    /\ vsn = 4
    /\ IdleReq /\ IdleBatch /\ IdleBatchReq /\ IdleOut /\ IdleDecode /\ IdleOpResult /\ IdleCalls

FromI8 ==
    /\ tag_out = None
    /\ tag_out' = Some(from_i8(tag_in))
    /\ UNCHANGED <<vsn, calls, batch, breq, req, buf, len_ret, tablet, res, opres, src, ret, tag_in>>

NextType == FromI8

SpecType == InitType /\ [][NextType]_vars

(***************************************************************************)
(* SpecReq: a single-operation request is built, its ids and credential    *)
(* are set, and it is encoded.                                             *)
(***************************************************************************)
\* (columns, properties) pairs handed to ObTableOperationRequest::new
ReqColumns ==
    {<<None, None>>, <<Some(<<c0>>), None>>, <<Some(<<c0, c1>>), Some(<<1, 2>>)>>}

InitReq ==
    /\ vsn \in Versions
    /\ req = None
    /\ IdleType /\ IdleBatch /\ IdleBatchReq /\ IdleOut /\ IdleDecode /\ IdleOpResult /\ IdleCalls

\* ObTableOperationRequest::new
ReqNew ==
    /\ req = None
    /\ \E table_name \in {<<>>, test}, operation_type \in ObTableOperationType,
          cp \in ReqColumns :
         req' = Some(ObTableOperationRequest_new(table_name, operation_type, <<1>>,
                                                 cp[1], cp[2]))
    /\ UNCHANGED <<vsn, calls, batch, breq, buf, len_ret, tablet, res, opres, src, ret, tag_in, tag_out>>

\* the struct literal of the module's tests: every field given directly
ReqLiteral ==
    /\ req = None
    /\ \E operation_type \in ObTableOperationType, entity_type \in {Dynamic, KV, HKV},
          consistency_level \in {Strong, Eventual}, obj_type \in {Obj, TableObj},
          return_row_key \in BOOLEAN, return_affected_entity \in BOOLEAN,
          return_affected_rows \in BOOLEAN :
         req' = Some([credential |-> test,
                      table_name |-> test,
                      table_id |-> 1,
                      partition_id |-> 1,
                      entity_type |-> entity_type,
                      table_operation |->
                          [op_type |-> operation_type,
                           entity |-> [row_key |-> [column_names |-> <<rk>>,
                                                    keys |-> <<2>>,
                                                    obj_type |-> obj_type],
                                       properties |-> EmptyMap]],
                      consistency_level |-> consistency_level,
                      return_row_key |-> return_row_key,
                      return_affected_entity |-> return_affected_entity,
                      return_affected_rows |-> return_affected_rows])
    /\ UNCHANGED <<vsn, calls, batch, breq, buf, len_ret, tablet, res, opres, src, ret, tag_in, tag_out>>

\* a setter gives up the buffer of an earlier encode
ReqSetTableId ==
    /\ req # None
    /\ \E table_id \in Ids : req' = Some([unwrap(req) EXCEPT !.table_id = table_id])
    /\ buf' = <<>> /\ len_ret' = None
    /\ UNCHANGED <<vsn, calls, batch, breq, tablet, res, opres, src, ret, tag_in, tag_out>>

ReqSetPartitionId ==
    /\ req # None
    /\ \E partition_id \in {OB_INVALID_ID, 1} :
         req' = Some([unwrap(req) EXCEPT !.partition_id = partition_id])
    /\ buf' = <<>> /\ len_ret' = None
    /\ UNCHANGED <<vsn, calls, batch, breq, tablet, res, opres, src, ret, tag_in, tag_out>>

ReqSetCredential ==
    /\ req # None
    /\ \E credential \in {<<>>, test} :
         req' = Some([unwrap(req) EXCEPT !.credential = credential])
    /\ buf' = <<>> /\ len_ret' = None
    /\ UNCHANGED <<vsn, calls, batch, breq, tablet, res, opres, src, ret, tag_in, tag_out>>

\* req.len() and req.encode(&mut BytesMut::new())
ReqEncode ==
    /\ req # None
    /\ len_ret' = Some(ObTableOperationRequest_len(unwrap(req), vsn))
    /\ buf' = ObTableOperationRequest_encode(unwrap(req), vsn)
    /\ UNCHANGED <<vsn, calls, batch, breq, req, tablet, res, opres, src, ret, tag_in, tag_out>>

NextReq ==
    \/ ReqNew
    \/ ReqLiteral
    \/ ReqSetTableId
    \/ ReqSetPartitionId
    \/ ReqSetCredential
    \/ ReqEncode

SpecReq == InitReq /\ [][NextReq]_vars

(***************************************************************************)
(* SpecBatch: the life of a batch accumulator.  Every call but             *)
(* generate_tablet_ops drops the tablet operations an earlier call         *)
(* returned; an insertion needs room under MaxOps.                         *)
(***************************************************************************)
GetColumns == {<<>>, <<c0>>, <<c1>>, <<c0, c1>>, <<c0, c0>>}

InsertColumns == {<<c0>>, <<c0, c1>>}

Filters == {"f0", "f1"}

\* the values handed over with the columns cols
values_for(cols) == [i \in 1..Len(cols) |-> 1]

\* tuples handed to add_op directly
RawOps ==
    {RawObTableOperation(t, None, <<1>>, None, None, f, o) :
        t \in {"Scan", "Invalid"},
        f \in {None, Some("f0")},
        o \in {None, Some(RawObTableOperationFlag_new)}}

\* operations handed to add_table_op
TableOps ==
    {ObTableOperation_new("Get", <<1>>, None, None),
     ObTableOperation_new("Insert", <<1>>, Some(<<c1>>), Some(<<1>>))}

has_room(b) ==
    /\ Len(b.ops) + Len(b.raw_ops) < MaxOps
    /\ Len(b.filters) < MaxOps
    /\ Len(b.options) < MaxOps

\* ObTableBatchOperation::new / with_ops_num / default, raw / with_ops_num_raw
\* what the constructors return
Constructed ==
    {ObTableBatchOperation_new, ObTableBatchOperation_raw, ObTableBatchOperation_default}
    \cup {with_ops_num(num) : num \in 0..MaxOps}
    \cup {with_ops_num_raw(num) : num \in 0..MaxOps}

InitBatch ==
    /\ batch \in Constructed
    /\ tablet = <<>>
    /\ vsn = 4
    /\ IdleType /\ IdleReq /\ IdleBatchReq /\ IdleOut /\ IdleDecode /\ IdleOpResult /\ IdleCalls

BatchFrame == UNCHANGED <<vsn, calls, breq, req, buf, len_ret, res, opres, src, ret, tag_in, tag_out>>

B_add_op ==
    /\ has_room(batch)
    /\ \E raw_op \in RawOps : batch' = add_op(batch, raw_op)
    /\ tablet' = <<>>
    /\ BatchFrame

B_get ==
    /\ has_room(batch)
    /\ \E columns \in GetColumns : batch' = builder(batch, "Get", <<1>>, Some(columns), None)
    /\ tablet' = <<>>
    /\ BatchFrame

B_insert ==
    /\ has_room(batch)
    /\ \E columns \in InsertColumns :
         batch' = builder(batch, "Insert", <<1>>, Some(columns), Some(values_for(columns)))
    /\ tablet' = <<>>
    /\ BatchFrame

B_delete ==
    /\ has_room(batch)
    /\ batch' = builder(batch, "Del", <<1>>, None, None)
    /\ tablet' = <<>>
    /\ BatchFrame

B_update ==
    /\ has_room(batch)
    /\ batch' = builder(batch, "Update", <<1>>, Some(<<c0>>), Some(<<1>>))
    /\ tablet' = <<>>
    /\ BatchFrame

B_insert_or_update ==
    /\ has_room(batch)
    /\ batch' = builder(batch, "InsertOrUpdate", <<1>>, Some(<<c0>>), Some(<<1>>))
    /\ tablet' = <<>>
    /\ BatchFrame

B_replace ==
    /\ has_room(batch)
    /\ batch' = builder(batch, "Replace", <<1>>, Some(<<c0>>), Some(<<1>>))
    /\ tablet' = <<>>
    /\ BatchFrame

B_increment ==
    /\ has_room(batch)
    /\ batch' = builder(batch, "Increment", <<1>>, Some(<<c0>>), Some(<<1>>))
    /\ tablet' = <<>>
    /\ BatchFrame

B_append ==
    /\ has_room(batch)
    /\ batch' = builder(batch, "Append", <<1>>, Some(<<c0>>), Some(<<1>>))
    /\ tablet' = <<>>
    /\ BatchFrame

B_check_and_upsert_if_exists ==
    /\ has_room(batch)
    /\ \E filter \in Filters :
         batch' = check_and_upsert_if_exists(batch, <<rk>>, <<1>>, <<c0>>, <<1>>, filter)
    /\ tablet' = <<>>
    /\ BatchFrame

B_check_and_upsert_if_not_exists ==
    /\ has_room(batch)
    /\ \E filter \in Filters :
         batch' = check_and_upsert_if_not_exists(batch, <<rk>>, <<1>>, <<c0>>, <<1>>, filter)
    /\ tablet' = <<>>
    /\ BatchFrame

B_add_table_op ==
    /\ has_room(batch)
    /\ \E op \in TableOps : batch' = add_table_op(batch, op)
    /\ tablet' = <<>>
    /\ BatchFrame

B_take_raw_ops ==
    /\ batch' = take_raw_ops(batch)
    /\ tablet' = <<>>
    /\ BatchFrame

B_take_ops ==
    /\ batch' = take_ops(batch)
    /\ tablet' = <<>>
    /\ BatchFrame

B_take_filters ==
    /\ batch' = take_filters(batch)
    /\ tablet' = <<>>
    /\ BatchFrame

B_take_options ==
    /\ batch' = take_options(batch)
    /\ tablet' = <<>>
    /\ BatchFrame

\* the caller starts over with a newly constructed accumulator
B_construct ==
    /\ batch' \in Constructed
    /\ tablet' = <<>>
    /\ BatchFrame

B_generate_tablet_ops ==
    /\ tablet' = generate_tablet_ops(batch)
    /\ batch' = after_generate_tablet_ops(batch)
    /\ BatchFrame

\* the insertions through add_op and the builders
NextInsert ==
    \/ B_add_op
    \/ B_get
    \/ B_insert
    \/ B_delete
    \/ B_update
    \/ B_insert_or_update
    \/ B_replace
    \/ B_increment
    \/ B_append
    \/ B_check_and_upsert_if_exists
    \/ B_check_and_upsert_if_not_exists

NextBatch ==
    \/ NextInsert
    \/ B_add_table_op
    \/ B_take_raw_ops
    \/ B_take_ops
    \/ B_take_filters
    \/ B_take_options
    \/ B_generate_tablet_ops
    \/ B_construct

SpecBatch == InitBatch /\ [][NextBatch]_vars

\* SpecAccumulator: the life of one accumulator, never constructed anew
NextAccumulator ==
    \/ NextInsert
    \/ B_add_table_op
    \/ B_take_raw_ops
    \/ B_take_ops
    \/ B_take_filters
    \/ B_take_options
    \/ B_generate_tablet_ops

SpecAccumulator == InitBatch /\ [][NextAccumulator]_vars

\* SpecInsert: insertions only, so that the lists hold every operation inserted
SpecInsert == InitBatch /\ [][NextInsert]_vars

\* the operations that write or read the per-op filter and flag lists, with
\* delete standing for the builders that add to neither
NextUpsert ==
    \/ B_check_and_upsert_if_exists
    \/ B_check_and_upsert_if_not_exists
    \/ B_add_op
    \/ B_delete
    \/ B_take_raw_ops
    \/ B_take_ops
    \/ B_take_filters
    \/ B_take_options
    \/ B_generate_tablet_ops

SpecUpsert == InitBatch /\ [][NextUpsert]_vars

(***************************************************************************)
(* SpecTablet: an accumulator from any constructor is filled through       *)
(* check_and_upsert_if_exists and check_and_upsert_if_not_exists only, and *)
(* converted by generate_tablet_ops; calls records what each call was      *)
(* handed.                                                                 *)
(***************************************************************************)
UpsertKeys == {<<1>>, <<2>>}

UpsertColumns == {<<c0>>, <<c0, c1>>}

\* the values handed over with the columns cols, one distinct value each
upsert_values(cols) == [i \in 1..Len(cols) |-> i]

upsert_call(row_keys, columns, filter, check_exists) ==
    [row_keys_names |-> <<rk>>, row_keys |-> row_keys, columns |-> columns,
     properties |-> upsert_values(columns), filter |-> filter, check_exists |-> check_exists]

TabletFrame == UNCHANGED <<vsn, breq, req, buf, len_ret, res, opres, src, ret, tag_in, tag_out>>

T_check_and_upsert_if_exists ==
    /\ has_room(batch)
    /\ \E row_keys \in UpsertKeys, columns \in UpsertColumns, filter \in Filters :
         /\ batch' = check_and_upsert_if_exists(batch, <<rk>>, row_keys, columns,
                                                upsert_values(columns), filter)
         /\ calls' = Append(calls, upsert_call(row_keys, columns, filter, TRUE))
    /\ tablet' = <<>>
    /\ TabletFrame

T_check_and_upsert_if_not_exists ==
    /\ has_room(batch)
    /\ \E row_keys \in UpsertKeys, columns \in UpsertColumns, filter \in Filters :
         /\ batch' = check_and_upsert_if_not_exists(batch, <<rk>>, row_keys, columns,
                                                    upsert_values(columns), filter)
         /\ calls' = Append(calls, upsert_call(row_keys, columns, filter, FALSE))
    /\ tablet' = <<>>
    /\ TabletFrame

\* generate_tablet_ops; a raw accumulator keeps its tuples
T_generate_tablet_ops ==
    /\ tablet' = generate_tablet_ops(batch)
    /\ batch' = after_generate_tablet_ops(batch)
    /\ calls' = IF batch.raw THEN calls ELSE <<>>
    /\ TabletFrame

NextTablet ==
    \/ T_check_and_upsert_if_exists
    \/ T_check_and_upsert_if_not_exists
    \/ T_generate_tablet_ops

SpecTablet == InitBatch /\ [][NextTablet]_vars

(***************************************************************************)
(* SpecBatchReq: an accumulator that a few calls have filled is wrapped    *)
(* into a batch request (the caller keeps a clone, as the module's test    *)
(* does), and the request is encoded.                                      *)
(***************************************************************************)
\* what one more call makes of the accumulator b
one_call(b) ==
    {builder(b, "Get", <<1>>, Some(<<c0>>), None),
     builder(b, "Insert", <<1>>, Some(<<c0, c1>>), Some(<<1, 1>>)),
     check_and_upsert_if_exists(b, <<rk>>, <<1>>, <<c0>>, <<1>>, "f0"),
     add_op(b, RawObTableOperation("Invalid", None, <<1>>, None, None, None, None)),
     add_table_op(b, ObTableOperation_new("Get", <<1>>, None, None)),
     set_table_name(b, test),
     set_table_id(b, 300),
     set_partition_id(b, 1)}

\* the accumulators at most n calls build
RECURSIVE built(_)
built(n) ==
    IF n = 0 THEN {internal_new(FALSE), internal_new(TRUE)}
    ELSE built(n - 1) \cup UNION {one_call(b) : b \in built(n - 1)}

InitBatchReq ==
    /\ batch \in built(MaxOps)
    /\ breq = None
    /\ vsn \in Versions
    /\ tablet = <<>>
    /\ IdleType /\ IdleReq /\ IdleOut /\ IdleDecode /\ IdleOpResult /\ IdleCalls

BatchReqFrame == UNCHANGED <<vsn, calls, req, tablet, res, opres, src, ret, tag_in, tag_out>>

\* set_atomic_op on the accumulator the caller holds
R_set_atomic_op ==
    /\ \E atomic_op \in BOOLEAN : batch' = set_atomic_op(batch, atomic_op)
    /\ UNCHANGED <<breq, buf, len_ret>>
    /\ BatchReqFrame

\* ObTableBatchOperationRequest::new(batch.clone(), ..)
R_new ==
    /\ breq = None
    /\ breq' = Some(ObTableBatchOperationRequest_new(batch))
    /\ UNCHANGED <<batch, buf, len_ret>>
    /\ BatchReqFrame

\* set_atomic_op on the accumulator the request embeds
R_embedded_set_atomic_op ==
    /\ breq # None
    /\ \E atomic_op \in BOOLEAN :
         breq' = Some([unwrap(breq) EXCEPT
                         !.batch_operation = set_atomic_op(@, atomic_op)])
    /\ UNCHANGED <<batch, buf, len_ret>>
    /\ BatchReqFrame

R_set_credential ==
    /\ breq # None
    /\ \E credential \in {<<>>, test} :
         breq' = Some(set_credential(unwrap(breq), credential))
    /\ UNCHANGED <<batch, buf, len_ret>>
    /\ BatchReqFrame

\* breq.len() and breq.encode(&mut BytesMut::new())
R_encode ==
    /\ breq # None
    /\ len_ret' = Some(ObTableBatchOperationRequest_len(unwrap(breq), vsn))
    /\ buf' = ObTableBatchOperationRequest_encode(unwrap(breq), vsn)
    /\ UNCHANGED <<batch, breq>>
    /\ BatchReqFrame

NextBatchReq ==
    \/ R_set_atomic_op
    \/ R_new
    \/ R_embedded_set_atomic_op
    \/ R_set_credential
    \/ R_encode

SpecBatchReq == InitBatchReq /\ [][NextBatchReq]_vars

(***************************************************************************)
(* SpecDecode: a batch result is decoded from a response the server sent.  *)
(* The server's side: the encoders of the results, with the count and the  *)
(* operation-type byte as the response states them.                        *)
(***************************************************************************)
encode_vi32(x) ==
    IF x < 0 THEN vi_groups(x, 4) \o <<(x \div 268435456) % 16>> ELSE encode_vi64(x)

with_header(body) == encode_vi64(BasePayLoad_version) \o encode_vi64(Len(body)) \o body

RECURSIVE wire_props(_)
wire_props(ps) ==
    IF ps = <<>> THEN <<>>
    ELSE encode_vstring(Head(ps)[1]) \o Value_encode(Head(ps)[2]) \o wire_props(Tail(ps))

wire_entity(d) ==
    with_header(encode_vi64(Len(d.keys)) \o encode_keys(d.keys, Obj)
                \o encode_vi64(Len(d.props)) \o wire_props(d.props))

wire_result(d) ==
    with_header(with_header(encode_vi32(d.errorno) \o encode_vstring(<<>>)
                            \o encode_vstring(d.msg))
                \o <<d.tag>> \o wire_entity(d) \o encode_vi64(d.affected_rows))

RECURSIVE wire_results(_)
wire_results(ds) ==
    IF ds = <<>> THEN <<>> ELSE wire_result(Head(ds)) \o wire_results(Tail(ds))

wire_batch_result(count, ds) == with_header(encode_vi64(count) \o wire_results(ds))

\* the per-operation results a response carries: operation-type bytes 0, 10,
\* 11 and -1, properties none, one, one name twice, two names
WireResults ==
    {[errorno |-> 0, msg |-> <<>>, tag |-> t, keys |-> <<1>>, props |-> ps,
      affected_rows |-> 1] :
        t \in {0, 10, 11, 255},
        ps \in {<<>>, <<<<c0, 1>>>>, <<<<c0, 1>>, <<c0, 2>>>>, <<<<c0, 1>>, <<c1, 0>>>>}}
    \cup {[errorno |-> 1, msg |-> test, tag |-> 1, keys |-> <<>>, props |-> <<>>,
           affected_rows |-> 0]}

\* the sequences over S of length at most n
RECURSIVE SeqsUpTo(_, _)
SeqsUpTo(S, n) ==
    IF n = 0 THEN {<<>>}
    ELSE SeqsUpTo(S, n - 1) \cup {Append(q, x) : q \in SeqsUpTo(S, n - 1), x \in S}

Responses ==
    {wire_batch_result(count, ds) :
        count \in -2..MaxResults, ds \in SeqsUpTo(WireResults, MaxResults)}

InitDecode ==
    /\ src \in Responses
    /\ res = ObTableBatchOperationResult_new
    /\ opres = ObTableOperationResult_new
    /\ ret = None
    /\ vsn = 4
    /\ IdleType /\ IdleReq /\ IdleBatch /\ IdleBatchReq /\ IdleOut /\ IdleCalls

\* res.decode(&mut src); a panic ends the run
D_decode ==
    /\ IF ret = None THEN TRUE ELSE unwrap(ret).outcome # "panic"
    /\ LET d == ObTableBatchOperationResult_decode(res, src) IN
         /\ res' = [res EXCEPT !.op_results = d.op_results]
         /\ src' = d.rest
         /\ ret' = Some([outcome |-> d.outcome, nested |-> d.nested])
    /\ UNCHANGED <<vsn, calls, batch, breq, req, buf, len_ret, tablet, opres, tag_in, tag_out>>

NextDecode == D_decode

SpecDecode == InitDecode /\ [][NextDecode]_vars

(***************************************************************************)
(* SpecOpResult: one ObTableOperationResult, decoded from what the server  *)
(* sent (whole, cut short, or followed by a second result) and stamped by  *)
(* the transport.                                                          *)
(***************************************************************************)
TraceIds == {<<1, 2>>, <<3, 4>>}

PeerAddrs == {"10.0.0.1:2882", "10.0.0.2:2882"}

\* the buffers w cut after any number of bytes
Prefixes(w) == {SubSeq(w, 1, k) : k \in 0..Len(w)}

OpResponses ==
    UNION {Prefixes(wire_result(d)) : d \in WireResults}
    \cup {wire_result(d) \o wire_result(e) : d, e \in {x \in WireResults : x.tag # 255}}

InitOpResult ==
    /\ opres = ObTableOperationResult_new
    /\ src \in OpResponses
    /\ ret = None
    /\ res = ObTableBatchOperationResult_new
    /\ vsn = 4
    /\ IdleType /\ IdleReq /\ IdleBatch /\ IdleBatchReq /\ IdleOut /\ IdleCalls

OpResultFrame == UNCHANGED <<vsn, calls, batch, breq, req, buf, len_ret, tablet, res, tag_in, tag_out>>

O_set_trace_id ==
    /\ \E trace_id \in TraceIds : opres' = set_trace_id(opres, trace_id)
    /\ UNCHANGED <<src, ret>>
    /\ OpResultFrame

O_set_peer_addr ==
    /\ \E addr \in PeerAddrs : opres' = set_peer_addr(opres, addr)
    /\ UNCHANGED <<src, ret>>
    /\ OpResultFrame

\* opres.decode(&mut src)
O_decode ==
    /\ opres' = ObTableOperationResult_decode_mut(opres, src).obj
    /\ src' = ObTableOperationResult_decode_mut(opres, src).rest
    /\ ret' = Some([outcome |-> IF ObTableOperationResult_decode_mut(opres, src).ok
                                THEN "Ok"
                                ELSE ObTableOperationResult_decode_mut(opres, src).err,
                    nested |-> 0])
    /\ OpResultFrame

NextOpResult == O_set_trace_id \/ O_set_peer_addr \/ O_decode

SpecOpResult == InitOpResult /\ [][NextOpResult]_vars

(***************************************************************************)
(* SpecDirection: decode called on a payload that is only ever sent, encode *)
(* on one that is only ever received.  Every such method is the single     *)
(* statement `unimplemented!()`; the payload and the buffer are not read.  *)
(***************************************************************************)
\* the ProtoDecoder impls of the request payloads
RequestOnly ==
    {"ObTableOperation::decode", "ObTableOperationRequest::decode",
     "ObTableBatchOperation::decode", "ObTableBatchOperationRequest::decode",
     "ObTableLoginRequest::decode"}

\* the ProtoEncoder impls of the response payloads
ResponseOnly ==
    {"ObRpcResultWarningMsg::encode", "ObRpcResultCode::encode",
     "ObTableLoginResult::encode", "ObTableResult::encode",
     "ObTableOperationResult::encode", "ObTableBatchOperationResult::encode"}

\* a stub that returns Ok(()) without doing anything
unimplemented_stub(method, b) == [outcome |-> "Ok", buffer |-> b]

\* `unimplemented!()` as the body of method, called with the buffer b: the
\* call panics and b is as it was
unimplemented(method, b) == [outcome |-> "panic", buffer |-> b]

InitDirection ==
    /\ src \in UNION {Prefixes(wire_result(d)) : d \in {x \in WireResults : x.tag = 1}}
    /\ buf \in {<<>>, test}
    /\ len_ret = None
    /\ ret = None
    /\ res = ObTableBatchOperationResult_new
    /\ vsn = 4
    /\ IdleType /\ IdleReq /\ IdleBatch /\ IdleBatchReq /\ IdleOpResult /\ IdleCalls

DirectionFrame == UNCHANGED <<vsn, calls, batch, breq, req, len_ret, tablet, res, opres, tag_in, tag_out>>

\* payload.decode(&mut src) on a request payload; a panic ends the run
X_decode_request_only ==
    /\ ret = None
    /\ \E method \in RequestOnly :
         /\ src' = unimplemented(method, src).buffer
         /\ ret' = Some([outcome |-> unimplemented(method, src).outcome, nested |-> 0,
                         method |-> method])
    /\ UNCHANGED buf
    /\ DirectionFrame

\* payload.encode(&mut buf) on a response payload; a panic ends the run
X_encode_response_only ==
    /\ ret = None
    /\ \E method \in ResponseOnly :
         /\ buf' = unimplemented(method, buf).buffer
         /\ ret' = Some([outcome |-> unimplemented(method, buf).outcome, nested |-> 0,
                         method |-> method])
    /\ UNCHANGED src
    /\ DirectionFrame

NextDirection == X_decode_request_only \/ X_encode_response_only

SpecDirection == InitDirection /\ [][NextDirection]_vars

(***************************************************************************)
(* Properties                                                              *)
(***************************************************************************)
Last(q) == q[Len(q)]

\* C1: for every single-operation request, the number of bytes encode appends
\* equals len() = header length + content_len(), with the partition id taking
\* 8 bytes when the major version is >= 4 and a varint otherwise.
C1_RequestLenIsEncodedLen ==
    is_some(len_ret) =>
        /\ Len(buf) = unwrap(len_ret)
        /\ unwrap(len_ret) = header_len(ObTableOperationRequest_content_len(unwrap(req), vsn))
                     + ObTableOperationRequest_content_len(unwrap(req), vsn)
        /\ Len(encode_partition_id(unwrap(req).partition_id, vsn))
           = IF vsn >= 4 THEN 8 ELSE encoded_length_vi64(unwrap(req).partition_id)

C1_Witness ==
    /\ is_some(len_ret)
    /\ vsn >= 4
    /\ unwrap(req).partition_id = 1
    /\ unwrap(req).table_operation.op_type = "Insert"
    /\ unwrap(req).entity_type = KV
    /\ Len(buf) = unwrap(len_ret)

\* C2: for every batch request built from an accumulator holding any sequence
\* of operations (none included), the number of bytes encode appends equals
\* len() = header length + content_len(), in both version branches, and again
\* on every further call on unchanged fields.
C2_BatchRequestLenIsEncodedLen ==
    /\ is_some(len_ret) => Len(buf) = unwrap(len_ret)
    /\ breq # None =>
           /\ Len(ObTableBatchOperationRequest_encode(unwrap(breq), vsn))
              = ObTableBatchOperationRequest_len(unwrap(breq), vsn)
           /\ ObTableBatchOperationRequest_len(unwrap(breq), vsn)
              = header_len(ObTableBatchOperationRequest_content_len(unwrap(breq), vsn))
                + ObTableBatchOperationRequest_content_len(unwrap(breq), vsn)

C2_Witness ==
    /\ is_some(len_ret)
    /\ breq # None
    /\ vsn < 4
    /\ Len(unwrap(breq).batch_operation.ops) = MaxOps
    /\ Len(buf) = unwrap(len_ret)

\* the three flags recomputed from the operations ops
all_get(ops) == \A i \in DOMAIN ops : ops[i].op_type = "Get"

all_first_type(ops) == \A i \in DOMAIN ops : ops[i].op_type = ops[1].op_type

all_first_names(ops) ==
    \A i \in DOMAIN ops : DOMAIN ops[i].entity.properties = DOMAIN ops[1].entity.properties

\* C3: in every state of an accumulator reachable through its public
\* operations, read_only, same_type and same_properties_names equal the values
\* recomputed from the operation list currently held.
C3_FlagsEqualRecomputed ==
    /\ batch.read_only = all_get(batch.ops)
    /\ batch.same_type = all_first_type(batch.ops)
    /\ batch.same_properties_names = all_first_names(batch.ops)

\* C4: in structured mode, after any sequence of insertions through add_op or
\* a builder, is_same_properties_names() is true exactly when every inserted
\* operation's property-name set equals the first inserted operation's.
C4_SameNamesIffAllEqualFirst ==
    ~batch.raw => (batch.same_properties_names <=> all_first_names(batch.ops))

\* C5: the raw tuple list and the structured operation list are never both
\* non-empty.
C5_ListsExclusive == ~(batch.raw_ops # <<>> /\ batch.ops # <<>>)

\* C6: from_i8 succeeds for every tag in 0..=10, the result cast back gives
\* the tag, distinct tags give distinct types, and every other signed byte is
\* a decode error, never a default type.
C6_TagBijection ==
    tag_out # None =>
        /\ IF tag_in \in 0..10
           THEN /\ unwrap(tag_out).ok
                /\ unwrap(tag_out).val \in ObTableOperationType
                /\ as_i8(unwrap(tag_out).val) = tag_in
           ELSE /\ ~unwrap(tag_out).ok
                /\ unwrap(tag_out).val \notin ObTableOperationType
        /\ \A t \in (0..10) \ {tag_in} : from_i8(t) # unwrap(tag_out)

C6_Witness == tag_out # None /\ tag_in = 11 /\ ~unwrap(tag_out).ok

\* C7: decoding a batch result whose encoded count is negative returns the
\* protocol error right after reading the count: no nested result is read, no
\* further byte is consumed and the result list is left as it was (empty).
C7_NegativeCountAborts ==
    [][(IF read_count(src).ok THEN read_count(src).val < 0 ELSE FALSE) =>
          /\ ret' = Some([outcome |-> "invalid operation results num", nested |-> 0])
          /\ src' = read_count(src).rest
          /\ res' = res
          /\ (res = ObTableBatchOperationResult_new => res'.op_results = <<>>)]_vars

C7_Witness ==
    /\ ret = Some([outcome |-> "invalid operation results num", nested |-> 0])
    /\ res.op_results = <<>>
    /\ src # <<>>

\* the per-op flag the most recent insertion stored
stored_flag(b) ==
    IF b.raw THEN unwrap(Last(b.raw_ops).option_flag) ELSE Last(b.options)

\* C8: check_and_upsert_if_exists stores a per-op flag with check_exists =
\* true, check_and_upsert_if_not_exists one with check_exists = false, and
\* every operation generate_tablet_ops emits has the check-not-exists policy
\* that negates the check_exists flag paired with it.
C8_CheckExistsInverted ==
    [][/\ B_check_and_upsert_if_exists =>
            stored_flag(batch') = [check_and_execute |-> TRUE, check_exists |-> TRUE]
       /\ B_check_and_upsert_if_not_exists =>
            stored_flag(batch') = [check_and_execute |-> TRUE, check_exists |-> FALSE]
       /\ B_generate_tablet_ops =>
            \A i \in DOMAIN tablet' :
                tablet'[i].is_check_not_exists = ~batch.options[i].check_exists]_vars

C8_Witness ==
    /\ Len(tablet) = MaxOps
    /\ tablet[1].is_check_not_exists
    /\ ~tablet[2].is_check_not_exists

\* where encode puts the operation's tag byte in the buffer of a request
tag_index(r, major) ==
    header_len(ObTableOperationRequest_content_len(r, major))
    + encoded_length_bytes_string(r.credential)
    + encoded_length_vstring(r.table_name)
    + encoded_length_vi64(r.table_id)
    + Len(encode_partition_id(r.partition_id, major))
    + 1
    + header_len(ObTableOperation_content_len(r.table_operation))
    + 1

\* C9: an Operation of type Invalid is never encoded: every tag byte written
\* by Operation encode lies in 0..=10.
C9_TagByteIsWireTag ==
    is_some(len_ret) => buf[tag_index(unwrap(req), vsn)] \in 0..10

\* C10: the atomic flag a batch request's encode writes is the accumulator's
\* setting when the request was built; setting the flag afterwards, on the
\* original or on the embedded accumulator, changes neither the request's
\* flag nor the last byte it encodes.
C10_AtomicIsSnapshot ==
    [][/\ (breq = None /\ breq' # None) => unwrap(breq').atomic_op = batch.atomic_op
       /\ breq # None => (breq' # None /\ unwrap(breq').atomic_op = unwrap(breq).atomic_op)
       /\ R_encode => Last(buf') = bool_i8(unwrap(breq).atomic_op)]_vars

C10_Witness ==
    /\ breq # None
    /\ is_some(len_ret)
    /\ unwrap(breq).atomic_op
    /\ ~unwrap(breq).batch_operation.atomic_op
    /\ ~batch.atomic_op
    /\ Last(buf) = 1

\* C11: decoding a per-operation result, whether it succeeds or fails, leaves
\* the result's trace id and peer address as they were; a step that changes
\* one of them is a set_trace_id or a set_peer_addr.
C11_DecodeKeepsTraceAndPeer ==
    [][/\ O_decode => /\ opres'.trace_id = opres.trace_id
                      /\ opres'.peer_addr = opres.peer_addr
       /\ opres'.trace_id # opres.trace_id => O_set_trace_id
       /\ opres'.peer_addr # opres.peer_addr => O_set_peer_addr]_vars

\* stamped, then a decode that ran out of bytes after writing a property
C11_Witness ==
    /\ opres.trace_id = <<3, 4>>
    /\ opres.peer_addr = Some("10.0.0.2:2882")
    /\ ret # None
    /\ unwrap(ret).outcome = "eof"
    /\ opres.entity.properties # EmptyMap

\* what a caller reads from an accumulator nothing was added to
fresh(b) ==
    /\ b.read_only /\ b.same_type /\ b.same_properties_names
    /\ ops_len(b) = 0 /\ b.ops = <<>> /\ b.raw_ops = <<>>
    /\ b.filters = <<>> /\ b.options = <<>>

\* C12: an accumulator as any constructor returns it (new, raw, with_ops_num,
\* with_ops_num_raw, default) reports read_only, same_type and
\* same_properties_names true and holds no operation, filter or flag.
C12_FreshAccumulator ==
    /\ fresh(batch)
    /\ [][B_construct => fresh(batch')]_vars

\* a raw accumulator as with_ops_num_raw returns it
C12_Witness ==
    /\ batch = with_ops_num_raw(MaxOps)
    /\ batch.raw /\ fresh(batch)
    /\ tablet = <<>>

\* a payload as a reader takes it off the wire: its header, then as many
\* bytes as the header's content length says, header included in the value
read_payload(s) ==
    and_then(decode_base(s), LAMBDA base :
    and_then(split_buf_to(base.rest, base.val), LAMBDA body :
        Ok(SubSeq(s, 1, Len(s) - Len(body.rest)), body.rest)))

\* the partition id: 8 bytes from major version 4 on, a varint before
read_partition_id(s, major) ==
    IF major >= 4 THEN split_buf_to(s, 8)
    ELSE and_then(decode_vi64(s), LAMBDA v : Ok(encode_vi64(v.val), v.rest))

\* a reader of the single-operation request that takes the fields in the
\* order credential, table name, table id, partition id, entity type,
\* operation, consistency level, three return flags
read_request(s, major) ==
    and_then(decode_base(s), LAMBDA base :
    and_then(decode_bytes(base.rest), LAMBDA credential :
    and_then(decode_vstring(credential.rest), LAMBDA table_name :
    and_then(decode_vi64(table_name.rest), LAMBDA table_id :
    and_then(read_partition_id(table_id.rest, major), LAMBDA partition_id :
    and_then(split_buf_to(partition_id.rest, 1), LAMBDA entity_type :
    and_then(read_payload(entity_type.rest), LAMBDA table_operation :
    and_then(split_buf_to(table_operation.rest, 4), LAMBDA tail :
        Ok([content_len |-> base.val,
            credential |-> credential.val,
            table_name |-> table_name.val,
            table_id |-> table_id.val,
            partition_id |-> partition_id.val,
            entity_type |-> entity_type.val,
            table_operation |-> table_operation.val,
            consistency_level |-> tail.val[1],
            return_row_key |-> tail.val[2],
            return_affected_entity |-> tail.val[3],
            return_affected_rows |-> tail.val[4]],
           tail.rest)))))))))

\* C13: single-operation request encode writes, after the header, credential,
\* table name, table id, partition id, entity type, the Operation, consistency
\* level, return-row-key, return-affected-entity, return-affected-rows, in
\* this order and nothing else; the partition id takes 8 fixed bytes when the
\* major version is >= 4 and is a varint otherwise.
C13_RequestFieldOrder ==
    is_some(len_ret) =>
        /\ read_request(buf, vsn).ok
        /\ read_request(buf, vsn).rest = <<>>
        /\ read_request(buf, vsn).val =
             [content_len |-> Len(buf) - header_len(read_request(buf, vsn).val.content_len),
              credential |-> unwrap(req).credential,
              table_name |-> unwrap(req).table_name,
              table_id |-> unwrap(req).table_id,
              partition_id |-> IF vsn >= 4 THEN put_i64(unwrap(req).partition_id)
                               ELSE encode_vi64(unwrap(req).partition_id),
              entity_type |-> <<unwrap(req).entity_type>>,
              table_operation |-> ObTableOperation_encode(unwrap(req).table_operation),
              consistency_level |-> unwrap(req).consistency_level,
              return_row_key |-> bool_i8(unwrap(req).return_row_key),
              return_affected_entity |-> bool_i8(unwrap(req).return_affected_entity),
              return_affected_rows |-> bool_i8(unwrap(req).return_affected_rows)]

C13_Witness ==
    /\ is_some(len_ret)
    /\ vsn < 4
    /\ unwrap(req).partition_id = OB_INVALID_ID
    /\ unwrap(req).table_id = 300
    /\ unwrap(req).credential = test
    /\ unwrap(req).consistency_level = Eventual
    /\ unwrap(req).return_row_key
    /\ ~unwrap(req).return_affected_rows
    /\ read_request(buf, vsn).ok

\* a reader of the batch request that takes the fields in the order
\* credential, table name, table id, entity type, batch payload, consistency
\* level, three return flags, partition id, atomic flag
read_batch_request(s, major) ==
    and_then(decode_base(s), LAMBDA base :
    and_then(decode_bytes(base.rest), LAMBDA credential :
    and_then(decode_vstring(credential.rest), LAMBDA table_name :
    and_then(decode_vi64(table_name.rest), LAMBDA table_id :
    and_then(split_buf_to(table_id.rest, 1), LAMBDA entity_type :
    and_then(read_payload(entity_type.rest), LAMBDA batch_operation :
    and_then(split_buf_to(batch_operation.rest, 4), LAMBDA flags :
    and_then(read_partition_id(flags.rest, major), LAMBDA partition_id :
    and_then(split_buf_to(partition_id.rest, 1), LAMBDA atomic_op :
        Ok([content_len |-> base.val,
            credential |-> credential.val,
            table_name |-> table_name.val,
            table_id |-> table_id.val,
            entity_type |-> entity_type.val,
            batch_operation |-> batch_operation.val,
            consistency_level |-> flags.val[1],
            return_row_key |-> flags.val[2],
            return_affected_entity |-> flags.val[3],
            return_affected_rows |-> flags.val[4],
            partition_id |-> partition_id.val,
            atomic_op |-> atomic_op.val],
           atomic_op.rest))))))))))

\* what encode appends for the request built, as read back
batch_request_read == read_batch_request(ObTableBatchOperationRequest_encode(unwrap(breq), vsn), vsn)

\* C14: batch request encode writes, after the header, credential, table
\* name, table id, entity type, the batch payload, consistency level, the
\* three return flags, then the partition id (8 fixed bytes when the major
\* version is >= 4, a varint otherwise) and the atomic flag as the last byte.
C14_BatchRequestFieldOrder ==
    /\ breq # None =>
        /\ batch_request_read.ok
        /\ batch_request_read.rest = <<>>
        /\ batch_request_read.val =
             [content_len |-> ObTableBatchOperationRequest_len(unwrap(breq), vsn)
                              - header_len(batch_request_read.val.content_len),
              credential |-> unwrap(breq).credential,
              table_name |-> unwrap(breq).table_name,
              table_id |-> unwrap(breq).table_id,
              entity_type |-> <<unwrap(breq).entity_type>>,
              batch_operation |-> ObTableBatchOperation_encode(unwrap(breq).batch_operation),
              consistency_level |-> unwrap(breq).consistency_level,
              return_row_key |-> bool_i8(unwrap(breq).return_row_key),
              return_affected_entity |-> bool_i8(unwrap(breq).return_affected_entity),
              return_affected_rows |-> bool_i8(unwrap(breq).return_affected_rows),
              partition_id |-> IF vsn >= 4 THEN put_i64(unwrap(breq).partition_id)
                               ELSE encode_vi64(unwrap(breq).partition_id),
              atomic_op |-> <<bool_i8(unwrap(breq).atomic_op)>>]
    /\ is_some(len_ret) => read_batch_request(buf, vsn).ok /\ read_batch_request(buf, vsn).rest = <<>>

C14_Witness ==
    /\ breq # None
    /\ is_some(len_ret)
    /\ vsn >= 4
    /\ unwrap(breq).table_name = test
    /\ unwrap(breq).atomic_op
    /\ unwrap(breq).credential = test
    /\ Len(unwrap(breq).batch_operation.ops) >= 1
    /\ buf = ObTableBatchOperationRequest_encode(unwrap(breq), vsn)

\* C15: decode on a request-only payload (Operation, single-operation
\* request, batch accumulator, batch request, login request) and encode on a
\* response-only payload (warning record, result code, login result, result
\* header, per-operation result, batch result) panic: the call returns no
\* value and the buffer is as it was.
C15_WrongDirectionPanics ==
    [][(X_decode_request_only \/ X_encode_response_only) =>
          /\ unwrap(ret').outcome = "panic"
          /\ buf' = buf
          /\ src' = src]_vars

C15_Witness ==
    /\ ret # None
    /\ unwrap(ret).outcome = "panic"
    /\ unwrap(ret).method = "ObTableBatchOperationResult::encode"
    /\ buf = test
    /\ src # <<>>

\* C16: in structured mode, after any sequence of insertions through add_op
\* or the builders, is_read_only() is true exactly when every inserted
\* operation has type Get.
C16_ReadOnlyIffAllGet ==
    ~batch.raw => (batch.read_only <=> all_get(batch.ops))

C16_Witness ==
    /\ ~batch.raw
    /\ Len(batch.ops) = MaxOps
    /\ batch.ops[1].op_type = "Get"
    /\ batch.ops[MaxOps].op_type = "Increment"
    /\ ~batch.read_only

\* C17: in structured mode, after any sequence of insertions through add_op
\* or the builders, is_same_type() is true exactly when every inserted
\* operation has the type of the first inserted operation.
C17_SameTypeIffAllFirstType ==
    ~batch.raw => (batch.same_type <=> all_first_type(batch.ops))

C17_Witness ==
    /\ ~batch.raw
    /\ Len(batch.ops) = MaxOps
    /\ batch.ops[1].op_type = "Insert"
    /\ batch.ops[MaxOps].op_type = "Insert"
    /\ batch.same_type
    /\ ~batch.read_only

\* C18: in structured mode, after any sequence of add_op insertions, the
\* filter list and the per-op flag list have the length of the operation
\* list, and the i-th filter and the i-th flag are the ones handed over
\* with the i-th operation.
C18_SideListsAligned ==
    /\ [](~batch.raw =>
            /\ Len(batch.filters) = Len(batch.ops)
            /\ Len(batch.options) = Len(batch.ops))
    /\ [][\A raw_op \in RawOps :
            (~batch.raw /\ batch' = add_op(batch, raw_op)) =>
                LET i == Len(batch'.ops) IN
                /\ i <= Len(batch'.filters)
                /\ i <= Len(batch'.options)
                /\ Some(batch'.filters[i]) = raw_op.filter_string
                /\ Some(batch'.options[i]) = raw_op.option_flag]_vars

\* the property map a tablet entity carries
entity_map(t) ==
    [name \in {t.properties_names[j] : j \in DOMAIN t.properties_names} |->
        t.properties_values[CHOOSE j \in DOMAIN t.properties_names : t.properties_names[j] = name]]

\* the property map a check_and_upsert call was handed
call_map(c) ==
    [name \in {c.columns[j] : j \in DOMAIN c.columns} |->
        c.properties[CHOOSE j \in DOMAIN c.columns : c.columns[j] = name]]

C20_GenerateDrainsAndZips ==
    /\ [](ENABLED B_generate_tablet_ops)
    /\ [][B_generate_tablet_ops =>
            /\ batch'.ops = <<>>
            /\ batch'.filters = <<>>
            /\ batch'.options = <<>>
            /\ Len(tablet') \in {Len(batch.ops), Len(batch.filters), Len(batch.options)}
            /\ Len(tablet') <= Len(batch.ops)
            /\ Len(tablet') <= Len(batch.filters)
            /\ Len(tablet') <= Len(batch.options)
            /\ \A i \in DOMAIN tablet' :
                /\ tablet'[i].op_type = "CheckAndInsertUp"
                /\ tablet'[i].entities[1].row_key = batch.ops[i].entity.row_key.keys
                /\ tablet'[i].entities[1].row_key_names = batch.ops[i].entity.row_key.column_names
                /\ tablet'[i].query.filter_string = batch.filters[i]
                /\ tablet'[i].is_check_not_exists = ~batch.options[i].check_exists]_vars

C20_Witness ==
    /\ Len(tablet) = 1
    /\ tablet[1].entities[1].row_key_names = <<>>
    /\ tablet[1].op_type = "CheckAndInsertUp"
    /\ tablet[1].query.filter_string = "f0"
    /\ batch.ops = <<>>
    /\ batch.filters = <<>>
    /\ batch.options = <<>>
    /\ ~batch.same_type

\* C21: in raw mode an insertion appends its tuple to the raw list, the
\* tuple add_op was handed arriving unchanged, and leaves the operation
\* list, the filter list, the flag list and the three flags as they were;
\* the three flags stay true whatever tuples are added.
C21_RawInsertionStoresVerbatim ==
    /\ [](batch.raw =>
            /\ batch.read_only
            /\ batch.same_type
            /\ batch.same_properties_names)
    /\ [][batch.raw =>
            /\ Len(batch'.raw_ops) = Len(batch.raw_ops) + 1
            /\ SubSeq(batch'.raw_ops, 1, Len(batch.raw_ops)) = batch.raw_ops
            /\ B_add_op => Last(batch'.raw_ops) \in RawOps
            /\ batch'.ops = batch.ops
            /\ batch'.filters = batch.filters
            /\ batch'.options = batch.options
            /\ batch'.read_only = batch.read_only
            /\ batch'.same_type = batch.same_type
            /\ batch'.same_properties_names = batch.same_properties_names
            /\ ops_len(batch') = Len(batch'.raw_ops)]_vars

C21_Witness ==
    /\ batch.raw
    /\ Len(batch.raw_ops) = MaxOps
    /\ batch.raw_ops[1].op_type = "Scan"
    /\ batch.raw_ops[1].filter_string = Some("f0")
    /\ batch.raw_ops[MaxOps].op_type = "Insert"
    /\ batch.ops = <<>>
    /\ batch.read_only
    /\ batch.same_type

\* n payloads one after the other
RECURSIVE read_operations(_, _, _)
read_operations(s, n, acc) ==
    IF n <= 0 THEN Ok(acc, s)
    ELSE and_then(read_payload(s), LAMBDA op :
             read_operations(op.rest, n - 1, Append(acc, op.val)))

\* a reader of the accumulator's payload that takes, after the header, the
\* operation count, that many operations, then three bytes
read_batch_body(s) ==
    and_then(decode_base(s), LAMBDA base :
    and_then(decode_vi64(base.rest), LAMBDA count :
    and_then(read_operations(count.rest, count.val, <<>>), LAMBDA ops :
    and_then(split_buf_to(ops.rest, 3), LAMBDA flags :
        Ok([content_len |-> base.val,
            count |-> count.val,
            count_len |-> Len(base.rest) - Len(count.rest),
            ops |-> ops.val,
            flags |-> flags.val],
           flags.rest)))))

RECURSIVE total_len(_)
total_len(seqs) == IF seqs = <<>> THEN 0 ELSE Len(Head(seqs)) + total_len(Tail(seqs))

\* the accumulator's payload inside the encoded request in buf, as read back
batch_body_read == read_batch_body(read_batch_request(buf, vsn).val.batch_operation)

\* C22: the accumulator's body is varint(operation count), then each
\* accumulated operation in insertion order, then exactly the three bytes
\* read_only, same_type, same_properties_names in that order; content_len()
\* is the varint's length plus the operations' encoded lengths plus 3.
C22_BatchBodyLayout ==
    is_some(len_ret) =>
        /\ batch_body_read.ok
        /\ batch_body_read.rest = <<>>
        /\ batch_body_read.val.count = Len(unwrap(breq).batch_operation.ops)
        /\ batch_body_read.val.ops =
             [i \in 1..Len(unwrap(breq).batch_operation.ops) |->
                 ObTableOperation_encode(unwrap(breq).batch_operation.ops[i])]
        /\ batch_body_read.val.flags =
             <<bool_i8(unwrap(breq).batch_operation.read_only),
               bool_i8(unwrap(breq).batch_operation.same_type),
               bool_i8(unwrap(breq).batch_operation.same_properties_names)>>
        /\ batch_body_read.val.content_len =
             batch_body_read.val.count_len + total_len(batch_body_read.val.ops) + 3
        /\ ObTableBatchOperation_content_len(unwrap(breq).batch_operation) =
             batch_body_read.val.content_len

C22_Witness ==
    /\ is_some(len_ret)
    /\ Len(unwrap(breq).batch_operation.ops) = MaxOps
    /\ unwrap(breq).batch_operation.ops[1].op_type = "Insert"
    /\ unwrap(breq).batch_operation.ops[MaxOps].op_type = "Insert"
    /\ unwrap(breq).batch_operation.same_type
    /\ ~unwrap(breq).batch_operation.read_only
    /\ batch_body_read.val.flags = <<0, 1, 1>>

\* the Operation payload inside the encoded request in buf
operation_written == read_request(buf, vsn).val.table_operation

\* the content length the Operation's header carries
operation_content_len_written == decode_base(operation_written).val

\* the Entity payload inside the Operation: what follows the tag byte
entity_written == Tail(decode_base(operation_written).rest)

\* the content length the Entity's header carries
entity_content_len_written == decode_base(entity_written).val

\* C23: for every Operation, content_len() is 1 (the tag byte) plus the
\* content_len() of its Entity, with nothing else counted.
C23_OperationContentLenIsEntityContentLen ==
    is_some(len_ret) =>
        /\ ObTableOperation_content_len(unwrap(req).table_operation) =
             1 + ObTableEntity_content_len(unwrap(req).table_operation.entity)
        /\ operation_content_len_written = 1 + entity_content_len_written

\* C23, amended: for every Operation, content_len() is 1 (the tag byte)
\* plus the whole encoded length of its Entity, the Entity's header and the
\* Entity's content_len(), and this is the content length encode writes
\* into the Operation's header.
C23_OperationContentLenIsEntityLen ==
    is_some(len_ret) =>
        /\ ObTableOperation_content_len(unwrap(req).table_operation) =
             1 + Len(ObTableEntity_encode(unwrap(req).table_operation.entity))
        /\ operation_content_len_written =
             ObTableOperation_content_len(unwrap(req).table_operation)
        /\ operation_content_len_written = 1 + Len(entity_written)
        /\ Len(entity_written) =
             (Len(entity_written) - Len(decode_base(entity_written).rest))
             + entity_content_len_written
        /\ entity_content_len_written =
             ObTableEntity_content_len(unwrap(req).table_operation.entity)

C23_Witness ==
    /\ is_some(len_ret)
    /\ unwrap(req).table_operation.op_type = "Update"
    /\ Cardinality(DOMAIN unwrap(req).table_operation.entity.properties) = 2
    /\ operation_content_len_written = 1 + Len(entity_written)
    /\ entity_content_len_written < Len(entity_written)

\* the bytes left after k nested results have been decoded
RECURSIVE skip_results(_, _)
skip_results(s, k) ==
    IF k = 0 THEN s
    ELSE skip_results(ObTableOperationResult_decode(ObTableOperationResult_new, s).rest, k - 1)

\* the k-th nested result of the response s, decoded on its own
nested_result(s, k) ==
    ObTableOperationResult_decode(ObTableOperationResult_new,
                                  skip_results(read_count(s).rest, k - 1))

\* C24: a batch result decode on a default-constructed result whose encoded
\* count n is >= 0 leaves, when it succeeds, exactly n per-operation results
\* in wire order; when a nested decode fails (an operation-type byte outside
\* 0..=10, or the bytes running out) decode returns that error and starts no
\* further nested decode.
C24_NestedResultsInWireOrder ==
    [][(/\ res = ObTableBatchOperationResult_new
        /\ (IF read_count(src).ok THEN read_count(src).val >= 0 ELSE FALSE)) =>
          /\ unwrap(ret').outcome # "panic"
          /\ Len(res'.op_results) <= read_count(src).val
          /\ \A i \in DOMAIN res'.op_results :
                /\ nested_result(src, i).ok
                /\ res'.op_results[i] = nested_result(src, i).val
          /\ unwrap(ret').outcome = "Ok" =>
                /\ Len(res'.op_results) = read_count(src).val
                /\ unwrap(ret').nested = read_count(src).val
                /\ src' = skip_results(read_count(src).rest, read_count(src).val)
          /\ unwrap(ret').outcome # "Ok" =>
                /\ Len(res'.op_results) < read_count(src).val
                /\ unwrap(ret').nested = Len(res'.op_results) + 1
                /\ ~nested_result(src, unwrap(ret').nested).ok
                /\ unwrap(ret').outcome = nested_result(src, unwrap(ret').nested).err
                /\ src' = nested_result(src, unwrap(ret').nested).rest]_vars

C24_Witness ==
    /\ ret = Some([outcome |-> "InvalidData", nested |-> MaxResults])
    /\ Len(res.op_results) = MaxResults - 1
    /\ res.op_results[1].operation_type = "CheckAndInsertUp"
    /\ Cardinality(DOMAIN res.op_results[1].entity.properties) = 2

\* n name/value pairs as they follow each other on the wire
RECURSIVE read_pairs(_, _, _)
read_pairs(s, n, acc) ==
    IF n <= 0 THEN Ok(acc, s)
    ELSE and_then(read_property(s), LAMBDA nv : read_pairs(nv.rest, n - 1, Append(acc, nv.val)))

\* the name/value pairs of the entity in one per-operation result on the wire
wire_pairs(s) ==
    and_then(decode_base(s), LAMBDA base :
    and_then(ObTableResult_decode(ObTableResult_new, base.rest), LAMBDA header :
    and_then(split_buf_to(header.rest, 1), LAMBDA tag :
    and_then(decode_base(tag.rest), LAMBDA entity_base :
    and_then(decode_vi64(entity_base.rest), LAMBDA row_keys_len :
    and_then(IF row_keys_len.val > 0
             THEN decode_row_keys(row_keys_len.rest, row_keys_len.val, <<>>)
             ELSE Ok(<<>>, row_keys_len.rest), LAMBDA keys :
    and_then(decode_vi64(keys.rest), LAMBDA properties_len :
        read_pairs(properties_len.rest, properties_len.val, <<>>))))))))

\* the pairs of the k-th nested result of the response s
nested_pairs(s, k) == wire_pairs(skip_results(read_count(s).rest, k - 1)).val

\* the value of name's last occurrence among pairs
last_value(pairs, name) ==
    pairs[CHOOSE j \in DOMAIN pairs :
            /\ pairs[j][1] = name
            /\ \A k \in DOMAIN pairs : k > j => pairs[k][1] # name][2]

\* C25: entity decode inserts each decoded name/value pair by name, a later
\* pair overwriting an earlier one of the same name: the decoded property map
\* has one entry per distinct name on the wire, holding the value of the
\* name's last occurrence.
C25_LastOccurrenceWins ==
    [][(/\ res = ObTableBatchOperationResult_new
        /\ (IF read_count(src).ok THEN read_count(src).val >= 0 ELSE FALSE)) =>
          \A i \in DOMAIN res'.op_results :
              /\ DOMAIN res'.op_results[i].entity.properties =
                   {nested_pairs(src, i)[j][1] : j \in DOMAIN nested_pairs(src, i)}
              /\ \A name \in DOMAIN res'.op_results[i].entity.properties :
                   res'.op_results[i].entity.properties[name] =
                       last_value(nested_pairs(src, i), name)]_vars

C25_Witness ==
    /\ Len(res.op_results) = MaxResults
    /\ DOMAIN res.op_results[1].entity.properties = {c0}
    /\ res.op_results[1].entity.properties[c0] = 2
    /\ DOMAIN res.op_results[MaxResults].entity.properties = {c0, c1}

\* C26: each of read_only, same_type and same_properties_names is monotone
\* over the life of one accumulator: once false, no insertion (add_op, the
\* builders, add_table_op) and no draining (take_ops, take_filters,
\* take_options, generate_tablet_ops) makes it true again, not even once
\* the operation list is empty.
C26_FlagsNeverComeBack ==
    [][/\ ~batch.read_only => ~batch'.read_only
       /\ ~batch.same_type => ~batch'.same_type
       /\ ~batch.same_properties_names => ~batch'.same_properties_names]_vars

C26_Witness ==
    /\ ~batch.raw
    /\ Len(batch.ops) = 1
    /\ batch.ops[1].op_type = "Get"
    /\ batch.filters # <<>>
    /\ tablet = <<>>
    /\ ~batch.read_only
    /\ ~batch.same_type
    /\ ~batch.same_properties_names

\* C27: the assertion that op_results is empty before the nested results
\* are read holds for a default-constructed result decoded for the first
\* time; a further decode with a non-negative count on a result that holds
\* at least one per-operation result stops at the assertion: nothing is
\* appended and no nested result is read.
C27_AssertionGuardsSecondDecode ==
    [][/\ (ret = None /\ res = ObTableBatchOperationResult_new) =>
             unwrap(ret').outcome # "panic"
       /\ (/\ res.op_results # <<>>
           /\ (IF read_count(src).ok THEN read_count(src).val >= 0 ELSE FALSE)) =>
             /\ unwrap(ret').outcome = "panic"
             /\ unwrap(ret').nested = 0
             /\ res' = res
             /\ src' = read_count(src).rest]_vars

C27_Witness ==
    /\ ret = Some([outcome |-> "panic", nested |-> 0])
    /\ Len(res.op_results) = 1
    /\ res.op_results[1].operation_type = "Get"
    /\ src # <<>>

====
